---- MODULE Spec2Model ----
(***************************************************************************)
(* A model of the workspace manager (git worktree + DDEV environment       *)
(* lifecycle tool): the configuration-file mutation functions and the      *)
(* `new`, `remove` and `init` workflows with their rollback.               *)
(*                                                                         *)
(* Go strings are modelled as sequences of bytes, each written as a short  *)
(* string (a character outside ASCII is several bytes), so that len,       *)
(* slicing, strings.Contains, strings.Replace and strings.HasPrefix are    *)
(* computed on the bytes, as the code computes them.                       *)
(***************************************************************************)
EXTENDS Integers, Sequences, FiniteSets, TLC

VARIABLES
  \* ---- renameDDEVProject / getDDEVProjectName applied to one file
  rnFile,     \* content of <worktree>/.ddev/config.yaml, or NoFile
  rnIdent,    \* identifier argument
  rnOrig,     \* originalName argument
  rnBefore,   \* content of the file before the last rename call
  rnErr,      \* TRUE iff the last rename call returned an error
  rnCount,    \* number of rename calls made so far
  \* ---- the project: version-control, file-system and environment state
  branches,       \* local branches (refs/heads/*)
  otherRefs,      \* names `git rev-parse --verify` resolves that are no local branch
  originDevelop,  \* refs/remotes/origin/develop exists
  worktrees,      \* workspace name -> branch checked out at spaces/<name> (Detached if none)
  decl,           \* workspace name -> content of its .ddev/config.yaml, or NoFile
  settings,       \* workspace name -> content of its settings.ddev.php, or NoFile
  envs,           \* environment name -> workspace it runs for
  dbDump,         \* <root>/db/db.sql.gz exists
  \* ---- one invocation of the tool per process
  pc,             \* position of the process in its workflow
  args,           \* arguments after the subcommand
  worktreeName, identifier, baseBranch,       \* cmdNew's parameters
  hasDDEV, originalName, ddevName,            \* cmdNew's locals
  branchExists,                               \* createWorktree's local
  state,          \* cleanupState: worktreePath, projectRoot, worktreeCreated, ddevStarted
  steps,          \* the StepResult sequence
  calls,          \* external commands and file mutations invoked, in order
  stdout,         \* messages printed on standard output
  stderr,         \* what main printed on standard error
  listed,         \* the lines cmdList printed: <<name, branch>>
  exitCode,       \* Running, or the process's exit status
  targetPath, branchName,                     \* cmdRemove's locals
  defaultBranch,                              \* cmdInit's local
  \* ---- the directory `init` is to create, <cwd>/<projectName>
  projectDir,     \* whether it exists, and the entries it holds
  projectDir0,    \* history: projectDir when the invocation started
  \* ---- the registry parsers applied to one listing
  regRecords,     \* the worktree records git lists
  regEnd,         \* how the listing ends: "blank", "newline" or "none"
  regTarget,      \* validateWorktree's targetPath
  regWorkspaces,  \* the workspaces cmdList collected
  regValid,       \* what validateWorktree returned
  regPhase,       \* "input", "listed" or "validated"
  \* ---- updateSettingsDdevPHP applied to one file
  stFile,     \* content of settings.ddev.php, or NoFile
  stName,     \* ddevName argument
  stBefore,   \* content of the file before the call
  stErr,      \* TRUE iff the call returned an error
  stCount     \* number of calls made so far

renameVars == <<rnFile, rnIdent, rnOrig, rnBefore, rnErr, rnCount>>
worldVars == <<branches, otherRefs, originDevelop, worktrees, decl, settings, envs, dbDump>>
newVars == <<worktreeName, identifier, baseBranch, hasDDEV, originalName, ddevName,
             branchExists, state>>
procVars == <<pc, args, steps, calls, stdout, exitCode>>
removeVars == <<targetPath, branchName>>
initVars == <<defaultBranch, projectDir, projectDir0>>
regVars == <<regRecords, regEnd, regTarget, regWorkspaces, regValid, regPhase>>
mainVars == <<stderr, listed>>
settingsVars == <<stFile, stName, stBefore, stErr, stCount>>

\* what the `new` workflow never touches
outsideNew == <<renameVars, removeVars, initVars, regVars, mainVars, settingsVars>>

vars == <<renameVars, worldVars, newVars, procVars, removeVars, initVars, regVars, mainVars, settingsVars>>

(***************************************************************************)
(* Strings                                                                 *)
(***************************************************************************)
NL == "\n"
CR == "\r"

\* The key prefix "name: " of the environment declaration.
KeyPrefix == <<"n", "a", "m", "e", ":", " ">>

\* A file that does not exist (os.ReadFile / os.Open return an error): a
\* value that is no content, since no content holds this element.
NoFile == <<"(no file)">>

\* strings.HasPrefix(s, p)
HasPrefix(s, p) == Len(p) <= Len(s) /\ SubSeq(s, 1, Len(p)) = p

\* strings.TrimPrefix(s, p)
TrimPrefix(s, p) == IF HasPrefix(s, p) THEN SubSeq(s, Len(p) + 1, Len(s)) ELSE s

\* sub occurs in s at (1-based) position i
MatchAt(s, sub, i) ==
  /\ i >= 1
  /\ i + Len(sub) - 1 <= Len(s)
  /\ SubSeq(s, i, i + Len(sub) - 1) = sub

\* strings.Index(s, sub), 1-based; 0 when sub does not occur in s
Index(s, sub) ==
  LET hits == {i \in 1..(Len(s) - Len(sub) + 1) : MatchAt(s, sub, i)}
  IN  IF hits = {} THEN 0
      ELSE CHOOSE i \in hits : \A j \in hits : i <= j

\* strings.Contains(s, sub)
Contains(s, sub) == Index(s, sub) # 0

\* A plausible slip: every occurrence is replaced (strings.ReplaceAll).
RECURSIVE ReplaceAll(_, _, _)
ReplaceAll(s, old, new) ==
  LET i == Index(s, old)
  IN  IF i = 0 THEN s
      ELSE SubSeq(s, 1, i - 1) \o new
             \o ReplaceAll(SubSeq(s, i + Len(old), Len(s)), old, new)

\* strings.Replace(s, old, new, 1): the first occurrence only
ReplaceFirst(s, old, new) ==
  LET i == Index(s, old)
  IN  IF i = 0 THEN s
      ELSE SubSeq(s, 1, i - 1) \o new \o SubSeq(s, i + Len(old), Len(s))

\* bufio.ScanLines drops one trailing carriage return of a line
DropCR(l) ==
  IF Len(l) > 0 /\ l[Len(l)] = CR THEN SubSeq(l, 1, Len(l) - 1) ELSE l

\* The lines bufio.Scanner yields for content s: split at "\n", the last
\* line is yielded without its newline when it is not empty.
RECURSIVE ScanLines(_)
ScanLines(s) ==
  IF s = <<>> THEN <<>>
  ELSE LET i == Index(s, <<NL>>)
       IN  IF i = 0 THEN <<DropCR(s)>>
           ELSE <<DropCR(SubSeq(s, 1, i - 1))>> \o ScanLines(SubSeq(s, i + 1, Len(s)))

(***************************************************************************)
(* ConfigMutator                                                           *)
(***************************************************************************)

\* getDDEVProjectName: [err, name]; the value of the first line that starts
\* with "name: ".
getDDEVProjectName(file) ==
  IF file = NoFile THEN [err |-> TRUE, name |-> <<>>]
  ELSE LET lines == ScanLines(file)
           hits  == {i \in 1..Len(lines) : HasPrefix(lines[i], KeyPrefix)}
       IN  IF hits = {} THEN [err |-> TRUE, name |-> <<>>]
           ELSE LET i == CHOOSE k \in hits : \A j \in hits : k <= j
                IN  [err |-> FALSE, name |-> TrimPrefix(lines[i], KeyPrefix)]

oldLine(orig) == KeyPrefix \o orig
newLine(ident, orig) == KeyPrefix \o ident \o <<"-">> \o orig

\* renameDDEVProject(worktreePath, identifier, originalName) on the file at
\* <worktreePath>/.ddev/config.yaml: [err, file].  writeFails is the outcome
\* of os.WriteFile (an error on opening the file leaves it as it was).
renameDDEVProject(file, ident, orig, writeFails) ==
  IF file = NoFile THEN [err |-> TRUE, file |-> file]
  ELSE IF ~Contains(file, oldLine(orig)) THEN [err |-> TRUE, file |-> file]
  ELSE IF writeFails THEN [err |-> TRUE, file |-> file]
  ELSE [err  |-> FALSE,
        file |-> ReplaceFirst(file, oldLine(orig),
                              newLine(ident, orig))]

\* Characters the regular expression class \s matches.
Whitespace == {" ", "\t", NL, CR, "\f"}

\* Characters of a $name reference in a replacement template.
WordChars ==
  {"a", "b", "c", "d", "e", "f", "g", "h", "i", "j", "k", "l", "m", "n", "o",
   "p", "q", "r", "s", "t", "u", "v", "w", "x", "y", "z", "0", "1", "2", "3",
   "4", "5", "6", "7", "8", "9", "_"}

\* the length of the longest prefix of s whose characters are all in set
RECURSIVE SpanLen(_, _)
SpanLen(s, set) ==
  IF s # <<>> /\ Head(s) \in set THEN 1 + SpanLen(Tail(s), set) ELSE 0

\* commentRe `(?s)/\*.*?\*/\s*`, FindStringIndex: [start, end) of the
\* leftmost match with the shortest comment body, 1-based; start = 0 when
\* there is no match.
commentRe(s) ==
  LET closes(i) == {j \in (i + 2)..Len(s) : MatchAt(s, <<"*", "/">>, j)}
      opens == {i \in 1..Len(s) : MatchAt(s, <<"/", "*">>, i) /\ closes(i) # {}}
  IN  IF opens = {} THEN [start |-> 0, end |-> 0]
      ELSE LET i == CHOOSE k \in opens : \A m \in opens : k <= m
               j == CHOOSE k \in closes(i) : \A m \in closes(i) : k <= m
           IN  [start |-> i,
                end   |-> j + 2 + SpanLen(SubSeq(s, j + 2, Len(s)), Whitespace)]

Quotes == {"\"", "'"}

\* hostRe `\$host\s*=\s*["'].*?["']` matched at position i of s: the
\* position after the match, 0 when it does not match there.  `.` matches no
\* newline, and `.*?` stops at the first quote.
hostReAt(s, i) ==
  IF ~MatchAt(s, <<"$", "h", "o", "s", "t">>, i) THEN 0
  ELSE LET a == i + 5 + SpanLen(SubSeq(s, i + 5, Len(s)), Whitespace)
       IN  IF ~(a <= Len(s) /\ s[a] = "=") THEN 0
           ELSE LET q == a + 1 + SpanLen(SubSeq(s, a + 1, Len(s)), Whitespace)
                IN  IF ~(q <= Len(s) /\ s[q] \in Quotes) THEN 0
                    ELSE LET body == SubSeq(s, q + 1, Len(s))
                             n    == SpanLen(body, {c \in {body[k] : k \in 1..Len(body)} :
                                                      c \notin Quotes /\ c # NL})
                         IN  IF q + n + 1 <= Len(s) /\ s[q + n + 1] \in Quotes
                             THEN q + n + 2 ELSE 0

\* hostRe.MatchString(s)
hostReMatches(s) == \E i \in 1..Len(s) : hostReAt(s, i) # 0

\* Regexp.Expand of a replacement template against a match of a regular
\* expression without capture groups: `$$` is a dollar, `$0` the match, any
\* other `$name` (name the longest run of letters, digits and underscores)
\* names no group and expands to nothing, a `$` followed by no name is kept.
RECURSIVE Expand(_, _)
Expand(template, match) ==
  IF template = <<>> THEN <<>>
  ELSE IF Head(template) # "$" THEN <<Head(template)>> \o Expand(Tail(template), match)
  ELSE LET r == Tail(template)
           n == SpanLen(r, WordChars)
       IN  IF r # <<>> /\ Head(r) = "$" THEN <<"$">> \o Expand(Tail(r), match)
           ELSE IF n = 0 THEN <<"$">> \o Expand(r, match)
           ELSE (IF SubSeq(r, 1, n) = <<"0">> THEN match ELSE <<>>)
                  \o Expand(SubSeq(r, n + 1, Len(r)), match)

\* hostRe.ReplaceAllString(s, repl): every match, left to right, replaced by
\* the expanded template.
RECURSIVE hostReReplaceAll(_, _)
hostReReplaceAll(s, repl) ==
  LET hits == {i \in 1..Len(s) : hostReAt(s, i) # 0}
  IN  IF hits = {} THEN s
      ELSE LET i == CHOOSE k \in hits : \A m \in hits : k <= m
               e == hostReAt(s, i)
           IN  SubSeq(s, 1, i - 1) \o Expand(repl, SubSeq(s, i, e - 1))
                 \o hostReReplaceAll(SubSeq(s, e, Len(s)), repl)

\* newHost: `$host = "ddev-` + ddevName + `-db"`
newHost(name) ==
  <<"$", "h", "o", "s", "t", " ", "=", " ", "\"", "d", "d", "e", "v", "-">>
    \o name \o <<"-", "d", "b", "\"">>

\* updateSettingsDdevPHP(worktreePath, ddevName) on the file at
\* <worktreePath>/web/sites/default/settings.ddev.php: [err, file].
updateSettingsDdevPHP(file, name, writeFails) ==
  IF file = NoFile THEN [err |-> TRUE, file |-> file]
  ELSE LET loc     == commentRe(file)
           content == IF loc.start # 0
                      THEN SubSeq(file, 1, loc.start - 1) \o SubSeq(file, loc.end, Len(file))
                      ELSE file
       IN  IF ~hostReMatches(content) THEN [err |-> TRUE, file |-> file]
           ELSE IF writeFails THEN [err |-> TRUE, file |-> file]
           ELSE [err |-> FALSE, file |-> hostReReplaceAll(content, newHost(name))]

(***************************************************************************)
(* Inputs of the ConfigMutator checks                                      *)
(***************************************************************************)
MaxLines == 2
MaxRenames == 2

\* Environment names found in declarations.
OrigNames == {<<"p">>, <<"p", "q">>, <<"q">>}

\* Identifiers: empty, a prefix of a name, a name, something else.
Idents == {<<>>, <<"p">>, <<"p", "q">>, <<"0">>}

\* Lines of a declaration file: name lines, a commented-out name line, a
\* line of another key.
FileLines ==
  {KeyPrefix \o n : n \in OrigNames}
    \cup {<<"#">> \o KeyPrefix \o <<"p">>, <<"t">>}

RECURSIVE JoinLines(_)
JoinLines(ls) ==
  IF ls = <<>> THEN <<>>
  ELSE IF Len(ls) = 1 THEN ls[1]
  ELSE ls[1] \o <<NL>> \o JoinLines(Tail(ls))

\* Files of up to MaxLines lines, with and without a final newline.
Files ==
  LET seqs == UNION {[1..k -> FileLines] : k \in 0..MaxLines}
  IN  {JoinLines(ls) : ls \in seqs} \cup {JoinLines(ls) \o <<NL>> : ls \in seqs}

(***************************************************************************)
(* The project and the processes                                           *)
(***************************************************************************)
Procs == {1, 2, 3}

\* exitCode of a process that has not exited
Running == -1

\* A worktree with no branch checked out (detached HEAD).
Detached == <<>>

nMain == <<"m", "a", "i", "n">>
nMaster == <<"m", "a", "s", "t", "e", "r">>
nDevelop == <<"d", "e", "v", "e", "l", "o", "p">>
nOriginDevelop == <<"o", "r", "i", "g", "i", "n", "/">> \o nDevelop
nOriginDevelopRef ==
  <<"r", "e", "f", "s", "/", "r", "e", "m", "o", "t", "e", "s", "/">> \o nOriginDevelop
FlagBase == <<"-", "-", "b", "a", "s", "e">>
FlagBaseEq == FlagBase \o <<"=">>

\* The project root findProjectRoot returns, and
\* filepath.Join(projectRoot, "spaces", name).
ProjectRoot == [root |-> "<root>", dir |-> "", name |-> <<>>]
SpacesPath(name) == [root |-> "<root>", dir |-> "spaces", name |-> name]
NoPath == [root |-> "", dir |-> "", name |-> <<>>]

\* no workspace, no project directory, and the cleanupState before cmdNew
EmptyMap == [x \in {} |-> <<>>]
NoDir == [exists |-> FALSE, entries |-> {}]
NoState == [worktreePath |-> NoPath, projectRoot |-> NoPath,
            worktreeCreated |-> FALSE, ddevStarted |-> FALSE]

StepResult(description, detail, value) ==
  [Description |-> description, Detail |-> detail, Value |-> value]

\* An external command (or a mutation of a file) as it was invoked, and
\* whether it returned success.
Call(cmd, dir, path, name, ok) ==
  [cmd |-> cmd, dir |-> dir, path |-> path, name |-> name, ok |-> ok]

DeclOf(w) == IF w \in DOMAIN decl THEN decl[w] ELSE NoFile
SettingsOf(w) == IF w \in DOMAIN settings THEN settings[w] ELSE NoFile

\* f with x mapped to v, and f without x
Put(f, x, v) == [y \in DOMAIN f \cup {x} |-> IF y = x THEN v ELSE f[y]]
Drop(f, x) == [y \in DOMAIN f \ {x} |-> f[y]]

\* `git rev-parse --verify <rev>` succeeds: rev names a branch, a tag or
\* another revision
Resolves(rev) ==
  \/ rev \in branches \cup otherRefs
  \/ rev \in {nOriginDevelop, nOriginDevelopRef} /\ originDevelop

\* The name the environment manager reads from the declaration of the
\* workspace it is run in.
EnvNameOf(w) == getDDEVProjectName(DeclOf(w))

\* os.Exit(code), or main returning (code 0)
Exit(p, code) ==
  /\ pc' = [pc EXCEPT ![p] = "done"]
  /\ exitCode' = [exitCode EXCEPT ![p] = code]

(***************************************************************************)
(* new: cmdNewFromArgs                                                     *)
(***************************************************************************)
IdentifierLen == 4

\* The flag loop of cmdNewFromArgs over the remaining arguments a.
RECURSIVE parseFlags(_, _, _)
parseFlags(a, base, positional) ==
  IF a = <<>> THEN [err |-> FALSE, baseBranch |-> base, positional |-> positional]
  ELSE IF Head(a) = FlagBase
       THEN IF Len(a) < 2
            THEN [err |-> TRUE, baseBranch |-> base, positional |-> positional]
            ELSE parseFlags(SubSeq(a, 3, Len(a)), a[2], positional)
  ELSE IF HasPrefix(Head(a), FlagBaseEq)
       THEN parseFlags(Tail(a), TrimPrefix(Head(a), FlagBaseEq), positional)
  ELSE parseFlags(Tail(a), base, Append(positional, Head(a)))

\* The identifier cmdNewFromArgs passes on.
deriveIdentifier(positional) ==
  IF Len(positional) = 2 THEN positional[2]
  ELSE IF Len(positional[1]) < IdentifierLen THEN positional[1]
  ELSE SubSeq(positional[1], 1, IdentifierLen)

cmdNewFromArgs(p) ==
  /\ pc[p] = "cmdNewFromArgs"
  /\ LET r == parseFlags(args[p], <<>>, <<>>)
     IN  IF \/ r.err
            \/ Len(r.positional) < 1
            \/ Len(r.positional) > 2
            \/ r.positional[1] = <<>>
         THEN /\ Exit(p, 1)
              /\ UNCHANGED <<worktreeName, identifier, baseBranch>>
         ELSE /\ worktreeName' = [worktreeName EXCEPT ![p] = r.positional[1]]
              /\ identifier' = [identifier EXCEPT ![p] = deriveIdentifier(r.positional)]
              /\ baseBranch' = [baseBranch EXCEPT ![p] = r.baseBranch]
              /\ pc' = [pc EXCEPT ![p] = "findProjectRoot"]
              /\ UNCHANGED exitCode
  /\ UNCHANGED <<hasDDEV, originalName, ddevName, branchExists, state>>
  /\ UNCHANGED <<args, steps, calls, stdout>>
  /\ UNCHANGED <<worldVars, outsideNew>>

(***************************************************************************)
(* new: cmdNew, createWorktree, handleDBImport, cleanup                    *)
(***************************************************************************)
Goto(p, label) == pc' = [pc EXCEPT ![p] = label] /\ UNCHANGED exitCode
Log(p, c) == calls' = [calls EXCEPT ![p] = Append(@, c)]
AddSteps(p, ss) == steps' = [steps EXCEPT ![p] = @ \o ss]
Stdout(p, msg) == stdout' = [stdout EXCEPT ![p] = Append(@, msg)]

SummaryBanner == "=== Workspace Setup Complete ==="

\* printSummary(steps) followed by the return from cmdNew
printSummary(p) == Stdout(p, SummaryBanner) /\ Exit(p, 0)

\* A plausible slip: the lookup's error is ignored, the name left empty.
findDDEVProjectNameAssumed ==
  LET m == getDDEVProjectName(DeclOf(nMain))
      s == getDDEVProjectName(DeclOf(nMaster))
  IN  IF ~m.err THEN m ELSE IF ~s.err THEN s ELSE [err |-> FALSE, name |-> <<>>]

\* findDDEVProjectName: the declaration of spaces/main, then of spaces/master
findDDEVProjectName ==
  LET m == getDDEVProjectName(DeclOf(nMain))
      s == getDDEVProjectName(DeclOf(nMaster))
  IN  IF ~m.err THEN m ELSE IF ~s.err THEN s ELSE [err |-> TRUE, name |-> <<>>]

\* cmdNew: findProjectRoot (its git query and its checks may fail)
cmdNew_findProjectRoot(p) ==
  /\ pc[p] = "findProjectRoot"
  /\ \E ok \in BOOLEAN :
       IF ok THEN Goto(p, "resolveBase") ELSE Exit(p, 1)
  /\ UNCHANGED <<newVars, args, steps, calls, stdout, worldVars, outsideNew>>

\* A plausible slip: the supplied base is taken to exist.
baseExistsAssumed(base) == TRUE

\* `git rev-parse --verify <baseBranch>` returns no error
baseExists(base) == Resolves(base)

\* A plausible slip: no default, the branch starts from the current HEAD.
defaultBaseHead(resolves, base) == base

\* baseBranch when no base was specified: origin/develop if it exists
defaultBase(resolves, base) == IF resolves THEN nOriginDevelop ELSE base

\* cmdNew: a supplied base must resolve; with none, origin/develop is used
\* when it exists.
cmdNew_resolveBase(p) ==
  /\ pc[p] = "resolveBase"
  /\ IF baseBranch[p] # <<>>
     THEN /\ Log(p, Call("git rev-parse --verify", ProjectRoot, NoPath, baseBranch[p],
                         Resolves(baseBranch[p])))
          /\ IF baseExists(baseBranch[p])
             THEN Goto(p, "findDDEVProjectName")
             ELSE Exit(p, 1)
          /\ UNCHANGED baseBranch
     ELSE /\ Log(p, Call("git rev-parse --verify", ProjectRoot, NoPath, nOriginDevelopRef,
                         Resolves(nOriginDevelopRef)))
          /\ baseBranch' = [baseBranch EXCEPT ![p] =
                              defaultBase(Resolves(nOriginDevelopRef), @)]
          /\ Goto(p, "findDDEVProjectName")
  /\ UNCHANGED <<worktreeName, identifier, hasDDEV, originalName, ddevName,
                 branchExists, state>>
  /\ UNCHANGED <<args, steps, stdout, worldVars, outsideNew>>

\* cmdNew: the cleanupState is set up and the original name is looked up.
cmdNew_findDDEVProjectName(p) ==
  /\ pc[p] = "findDDEVProjectName"
  /\ LET r == findDDEVProjectName
     IN  /\ hasDDEV' = [hasDDEV EXCEPT ![p] = ~r.err]
         /\ originalName' = [originalName EXCEPT ![p] = r.name]
         /\ AddSteps(p, IF ~r.err
                        THEN <<StepResult("Read DDEV project name", "", r.name)>>
                        ELSE <<>>)
  /\ state' = [state EXCEPT ![p] =
                 [worktreePath |-> SpacesPath(worktreeName[p]),
                  projectRoot |-> ProjectRoot,
                  worktreeCreated |-> FALSE,
                  ddevStarted |-> FALSE]]
  /\ Goto(p, "createWorktree")
  /\ UNCHANGED <<worktreeName, identifier, baseBranch, ddevName, branchExists>>
  /\ UNCHANGED <<args, calls, stdout, worldVars, outsideNew>>

\* createWorktree: os.MkdirAll of spaces/, then the check whether the name
\* resolves.
createWorktree_check(p) ==
  /\ pc[p] = "createWorktree"
  /\ \E mkdirOk \in BOOLEAN :
       IF mkdirOk
       THEN /\ Log(p, Call("git rev-parse --verify", ProjectRoot, NoPath, worktreeName[p],
                           Resolves(worktreeName[p])))
            /\ branchExists' = [branchExists EXCEPT ![p] = Resolves(worktreeName[p])]
            /\ Goto(p, "worktreeAdd")
       ELSE /\ Goto(p, "cleanup")
            /\ UNCHANGED <<calls, branchExists>>
  /\ UNCHANGED <<worktreeName, identifier, baseBranch, hasDDEV, originalName,
                 ddevName, state>>
  /\ UNCHANGED <<args, steps, stdout, worldVars, outsideNew>>

\* The declarations and settings files a checked-out commit may hold.
WtDecls ==
  LET project == <<"p", "r", "o", "j", "e", "c", "t">>
  IN  { NoFile,
        KeyPrefix \o project \o <<NL>>,
        KeyPrefix \o project \o <<"2", NL>>,
        <<"#">> \o KeyPrefix \o project \o <<NL>> \o KeyPrefix \o project \o <<NL>>,
        <<"t", NL>> }

WtSettings ==
  { NoFile,
    <<"/", "*", "c", "*", "/", NL, "$", "h", "o", "s", "t", " ", "=", " ", "\"", "d", "b", "\"", ";">>,
    <<"$", "x", ";">> }

\* `git worktree add` can succeed: the path is free, and the branch to check
\* out is checked out nowhere else, or the branch to create does not exist
\* and its base resolves.
CanAddWorktree(p) ==
  LET name == worktreeName[p]
  IN  /\ name \notin DOMAIN worktrees
      /\ IF branchExists[p]
         THEN /\ Resolves(name)
              /\ name \in branches => \A w \in DOMAIN worktrees : worktrees[w] # name
         ELSE /\ name \notin branches
              /\ baseBranch[p] # <<>> => Resolves(baseBranch[p])

\* What the new worktree has checked out: the branch, or a detached HEAD
\* when the name resolved to a revision that is no branch.
CheckedOut(p) ==
  IF branchExists[p] /\ worktreeName[p] \notin branches
  THEN Detached ELSE worktreeName[p]

\* A plausible slip: the flag is set before the command's outcome is known.
WorktreeCreatedAlways(ok) == TRUE

\* A plausible slip: the flag is never set.
WorktreeCreatedNever(ok) == FALSE

\* state.worktreeCreated after createWorktree returned
WorktreeCreatedAfter(ok) == ok

\* A plausible slip: the branch is always created, from the base.
gitArgsCreate(exists, name, base) == [cmd |-> "git worktree add -b", from |-> base]

\* createWorktree's gitArgs: an existing branch is checked out, otherwise
\* the branch is created, from baseBranch when it is not empty.
gitArgs(exists, name, base) ==
  IF exists THEN [cmd |-> "git worktree add", from |-> name]
  ELSE [cmd |-> "git worktree add -b", from |-> base]

\* createWorktree: `git worktree add`, and what cmdNew does on its return.
createWorktree_add(p) ==
  /\ pc[p] = "worktreeAdd"
  /\ LET name == worktreeName[p]
     IN  \E ok \in {b \in BOOLEAN : b => CanAddWorktree(p)} :
           /\ Log(p, Call(gitArgs(branchExists[p], name, baseBranch[p]).cmd,
                          ProjectRoot, SpacesPath(name),
                          gitArgs(branchExists[p], name, baseBranch[p]).from, ok))
           /\ state' = [state EXCEPT ![p].worktreeCreated = WorktreeCreatedAfter(ok)]
           /\ IF ok
              THEN /\ worktrees' = Put(worktrees, name, CheckedOut(p))
                   /\ branches' = IF branchExists[p] THEN branches ELSE branches \cup {name}
                   /\ \E d \in WtDecls : decl' = Put(decl, name, d)
                   /\ \E f \in WtSettings : settings' = Put(settings, name, f)
                   /\ IF hasDDEV[p]
                      THEN /\ AddSteps(p, <<StepResult("Created git worktree", "", name)>>)
                           /\ Goto(p, "rename")
                           /\ UNCHANGED stdout
                      ELSE /\ AddSteps(p, <<StepResult("Created git worktree", "", name),
                                           StepResult("DDEV",
                                             "Skipped (no .ddev/config.yaml found in any worktree)",
                                             <<>>)>>)
                           /\ printSummary(p)
              ELSE /\ Goto(p, "cleanup")
                   /\ UNCHANGED <<worktrees, branches, decl, settings, steps, stdout>>
  /\ UNCHANGED <<worktreeName, identifier, baseBranch, hasDDEV, originalName,
                 ddevName, branchExists>>
  /\ UNCHANGED <<args, otherRefs, originDevelop, envs, dbDump, outsideNew>>

\* A plausible slip: `master` is forgotten.
isDefaultBranchMain(name) == name = nMain

\* cmdNew's isDefaultBranch
isDefaultBranch(name) == name = nMain \/ name = nMaster

\* ddevName as cmdNew composes it
composeName(ident, orig) == ident \o <<"-">> \o orig

\* A plausible slip: the error of the rename is only reported.
renameFatalNever(err) == FALSE

\* whether cmdNew cleans up and exits after renameDDEVProject returned err
renameFatal(err) == err

\* cmdNew step 3: the declaration of the new worktree is renamed, unless the
\* workspace is main or master.
cmdNew_rename(p) ==
  /\ pc[p] = "rename"
  /\ LET name == worktreeName[p]
     IN  IF isDefaultBranch(name)
         THEN /\ ddevName' = [ddevName EXCEPT ![p] = originalName[p]]
              /\ AddSteps(p, <<StepResult("DDEV project name", " (kept default)",
                                          originalName[p])>>)
              /\ Goto(p, "ddevStart")
              /\ UNCHANGED <<decl, calls>>
         ELSE /\ ddevName' = [ddevName EXCEPT ![p] =
                                composeName(identifier[p], originalName[p])]
              /\ \E writeFails \in BOOLEAN :
                   LET r == renameDDEVProject(DeclOf(name), identifier[p],
                                              originalName[p], writeFails)
                   IN  /\ Log(p, Call("renameDDEVProject", ProjectRoot,
                                      SpacesPath(name), identifier[p], ~r.err))
                       /\ IF renameFatal(r.err)
                          THEN /\ Goto(p, "cleanup")
                               /\ UNCHANGED <<decl, steps>>
                          ELSE /\ decl' = IF r.err THEN decl ELSE Put(decl, name, r.file)
                               /\ AddSteps(p, <<StepResult("Renamed DDEV project", "",
                                                 composeName(identifier[p], originalName[p]))>>)
                               /\ Goto(p, "settings")
  /\ UNCHANGED <<worktreeName, identifier, baseBranch, hasDDEV, originalName,
                 branchExists, state>>
  /\ UNCHANGED <<args, stdout, outsideNew>>
  /\ UNCHANGED <<branches, otherRefs, originDevelop, worktrees, settings, envs, dbDump>>

\* cmdNew step 3b: settings.ddev.php, when it exists, is rewritten.
cmdNew_settings(p) ==
  /\ pc[p] = "settings"
  /\ LET name == worktreeName[p]
     IN  IF SettingsOf(name) = NoFile
         THEN /\ Goto(p, "ddevStart")
              /\ UNCHANGED <<settings, steps, calls>>
         ELSE /\ \E writeFails \in BOOLEAN :
                   LET r == updateSettingsDdevPHP(SettingsOf(name), ddevName[p], writeFails)
                   IN  /\ Log(p, Call("updateSettingsDdevPHP", ProjectRoot,
                                      SpacesPath(name), ddevName[p], ~r.err))
                       /\ IF r.err
                          THEN /\ Goto(p, "cleanup")
                               /\ UNCHANGED <<settings, steps>>
                          ELSE /\ settings' = Put(settings, name, r.file)
                               /\ AddSteps(p, <<StepResult("Updated settings.ddev.php",
                                                 "DB host set to ddev-<name>-db", ddevName[p])>>)
                               /\ Goto(p, "ddevStart")
  /\ UNCHANGED <<newVars, args, stdout, outsideNew>>
  /\ UNCHANGED <<branches, otherRefs, originDevelop, worktrees, decl, envs, dbDump>>

\* `ddev start` in workspace w can succeed: the declaration names the
\* environment, and no other workspace runs an environment of that name.
CanStart(w) ==
  /\ ~EnvNameOf(w).err
  /\ EnvNameOf(w).name \in DOMAIN envs => envs[EnvNameOf(w).name] = w

\* A plausible slip: the flag is set whatever the command returned.
DdevStartedAlways(ok) == TRUE

\* state.ddevStarted after `ddev start` returned
DdevStartedAfter(ok) == ok

\* cmdNew step 4: `ddev start` in the new worktree.
cmdNew_ddevStart(p) ==
  /\ pc[p] = "ddevStart"
  /\ LET name == worktreeName[p]
     IN  \E ok \in {b \in BOOLEAN : b => CanStart(name)} :
           /\ Log(p, Call("ddev start", SpacesPath(name), NoPath, <<>>, ok))
           /\ state' = [state EXCEPT ![p].ddevStarted = DdevStartedAfter(ok)]
           /\ IF ok
              THEN /\ envs' = Put(envs, EnvNameOf(name).name, name)
                   /\ AddSteps(p, <<StepResult("Started DDEV", "", ddevName[p])>>)
                   /\ Goto(p, "handleDBImport")
              ELSE /\ Goto(p, "cleanup")
                   /\ UNCHANGED <<envs, steps>>
  /\ UNCHANGED <<worktreeName, identifier, baseBranch, hasDDEV, originalName,
                 ddevName, branchExists>>
  /\ UNCHANGED <<args, stdout, outsideNew>>
  /\ UNCHANGED <<branches, otherRefs, originDevelop, worktrees, decl, settings, dbDump>>

\* strings.TrimSpace
RECURSIVE TrimSpace(_)
TrimSpace(s) ==
  IF s = <<>> THEN s
  ELSE IF Head(s) \in Whitespace THEN TrimSpace(Tail(s))
  ELSE IF s[Len(s)] \in Whitespace THEN TrimSpace(SubSeq(s, 1, Len(s) - 1))
  ELSE s

\* bufio.Reader.ReadString('\n') on the pending input: an error when the
\* input ends before a newline.
ReadString(input) ==
  LET i == Index(input, <<NL>>)
  IN  IF i = 0 THEN [err |-> TRUE, line |-> input]
      ELSE [err |-> FALSE, line |-> SubSeq(input, 1, i)]

\* What the user may type at a prompt (and an input that ends at once).
PromptInputs ==
  {<<>>, <<NL>>, <<" ", NL>>, <<"y", NL>>, <<"Y", NL>>, <<"n", NL>>,
   <<"y", "e", "s", NL>>, <<" ", "y", " ", NL>>, <<"y">>}

\* Among the paths typed, those of files that exist.
ExistingFiles == {<<"y">>, <<"y", "e", "s">>}

DumpPath == [root |-> "<root>", dir |-> "db", name |-> <<"d", "b", ".", "s", "q", "l", ".", "g", "z">>]
TypedPath(input) == [root |-> "<cwd>", dir |-> "", name |-> input]

\* A plausible slip: the typed path is handed to the import without os.Stat.
dbImportDecisionNoStat(dumpExists, typed) ==
  IF dumpExists THEN [err |-> FALSE, skip |-> FALSE, prompted |-> FALSE, path |-> DumpPath]
  ELSE LET r     == ReadString(typed)
           input == TrimSpace(r.line)
       IN  IF r.err THEN [err |-> TRUE, skip |-> FALSE, prompted |-> TRUE, path |-> NoPath]
           ELSE IF input = <<>>
                THEN [err |-> FALSE, skip |-> TRUE, prompted |-> TRUE, path |-> NoPath]
           ELSE [err |-> FALSE, skip |-> FALSE, prompted |-> TRUE, path |-> TypedPath(input)]

\* handleDBImport: what it decides before any import: [err, skip, path].
dbImportDecision(dumpExists, typed) ==
  IF dumpExists THEN [err |-> FALSE, skip |-> FALSE, prompted |-> FALSE, path |-> DumpPath]
  ELSE LET r     == ReadString(typed)
           input == TrimSpace(r.line)
       IN  IF r.err THEN [err |-> TRUE, skip |-> FALSE, prompted |-> TRUE, path |-> NoPath]
           ELSE IF input = <<>>
                THEN [err |-> FALSE, skip |-> TRUE, prompted |-> TRUE, path |-> NoPath]
           ELSE IF input \notin ExistingFiles
                THEN [err |-> TRUE, skip |-> FALSE, prompted |-> TRUE, path |-> TypedPath(input)]
           ELSE [err |-> FALSE, skip |-> FALSE, prompted |-> TRUE, path |-> TypedPath(input)]

\* cmdNew step 5: handleDBImport, and the summary when it returns no error.
cmdNew_handleDBImport(p) ==
  /\ pc[p] = "handleDBImport"
  /\ LET name == worktreeName[p]
     IN  \E typed \in PromptInputs, importOk \in BOOLEAN :
           LET d == dbImportDecision(dbDump, typed)
           IN  /\ calls' = [calls EXCEPT ![p] =
                    @ \o (IF d.prompted THEN <<Call("prompt", NoPath, NoPath, typed, ~ReadString(typed).err)>> ELSE <<>>)
                      \o (IF ~d.err /\ ~d.skip
                          THEN <<Call("ddev import-db", SpacesPath(name), d.path, <<>>, importOk)>>
                          ELSE <<>>)]
               /\ IF d.err \/ (~d.skip /\ ~importOk)
                  THEN /\ Goto(p, "cleanup")
                       /\ UNCHANGED <<steps, stdout>>
                  ELSE /\ AddSteps(p, <<StepResult("Database",
                                          IF d.skip THEN "Skipped (no import)"
                                                    ELSE "Imported from ",
                                          d.path.name)>>)
                       /\ printSummary(p)
  /\ UNCHANGED <<newVars, args, worldVars, outsideNew>>

\* cleanup: the environment is deleted if it was started.
\* A plausible slip: a failed `ddev delete` ends the cleanup.
cleanupStopsOnError(ok) == ~ok

\* whether the outcome of `ddev delete` ends the cleanup: its failure is a
\* warning
cleanupStops(ok) == FALSE

cleanup_ddev(p) ==
  /\ pc[p] = "cleanup"
  /\ LET name == state[p].worktreePath.name
     IN  IF state[p].ddevStarted
         THEN \E ok \in BOOLEAN :
                /\ Log(p, Call("ddev delete -O --omit-snapshot", state[p].worktreePath,
                               NoPath, <<>>, ok))
                /\ envs' = IF ok /\ ~EnvNameOf(name).err
                              /\ EnvNameOf(name).name \in DOMAIN envs
                              /\ envs[EnvNameOf(name).name] = name
                           THEN Drop(envs, EnvNameOf(name).name)
                           ELSE envs
                /\ IF cleanupStops(ok) THEN Exit(p, 1) ELSE Goto(p, "cleanupWorktree")
         ELSE Goto(p, "cleanupWorktree") /\ UNCHANGED <<calls, envs>>
  /\ UNCHANGED <<newVars, args, steps, stdout, outsideNew>>
  /\ UNCHANGED <<branches, otherRefs, originDevelop, worktrees, decl, settings, dbDump>>

\* A plausible slip: cleanup removes the worktree path whatever the flag.
cleanupRemovesAlways(created) == TRUE

\* whether cleanup runs `git worktree remove --force`
cleanupRemoves(created) == created

\* A plausible slip: cleanup also deletes the branch, as `remove` does.
branchesAfterCleanupDeleted(bs, name) == bs \ {name}

\* the branches cleanup leaves: it runs no `git branch -D`
branchesAfterCleanup(bs, name) == bs

\* cleanup: the worktree is removed if it was created; then os.Exit(1).
cleanup_worktree(p) ==
  /\ pc[p] = "cleanupWorktree"
  /\ LET name == state[p].worktreePath.name
     IN  IF cleanupRemoves(state[p].worktreeCreated)
         THEN \E ok \in {b \in BOOLEAN : b => name \in DOMAIN worktrees} :
                /\ Log(p, Call("git worktree remove --force", state[p].projectRoot,
                               state[p].worktreePath, <<>>, ok))
                /\ IF ok
                   THEN /\ worktrees' = Drop(worktrees, name)
                        /\ decl' = Drop(decl, name)
                        /\ settings' = Drop(settings, name)
                   ELSE UNCHANGED <<worktrees, decl, settings>>
         ELSE UNCHANGED <<calls, worktrees, decl, settings>>
  /\ branches' = branchesAfterCleanup(branches, state[p].worktreePath.name)
  /\ Exit(p, 1)
  /\ UNCHANGED <<newVars, args, steps, stdout, outsideNew>>
  /\ UNCHANGED <<otherRefs, originDevelop, envs, dbDump>>

(***************************************************************************)
(* The registry: `git worktree list --porcelain` as cmdList and            *)
(* validateWorktree read it                                                *)
(***************************************************************************)
WorktreePrefix == <<"w", "o", "r", "k", "t", "r", "e", "e", " ">>
BranchPrefix == <<"b", "r", "a", "n", "c", "h", " ">>
BareLine == <<"b", "a", "r", "e">>
HeadsPrefix == <<"r", "e", "f", "s", "/", "h", "e", "a", "d", "s", "/">>
RootText == <<"/", "r">>
SpacesDir == RootText \o <<"/", "s", "p", "a", "c", "e", "s">>
Separator == "/"

\* strings.Split(s, "\n")
RECURSIVE Split(_)
Split(s) ==
  LET i == Index(s, <<NL>>)
  IN  IF i = 0 THEN <<s>>
      ELSE <<SubSeq(s, 1, i - 1)>> \o Split(SubSeq(s, i + 1, Len(s)))

\* A plausible slip: the record is put in front of the entries.
appendWorkspaceFront(st) ==
  IF ~st.isBare /\ HasPrefix(st.currentPath, SpacesDir \o <<Separator>>)
  THEN <<[name |-> TrimPrefix(st.currentPath, SpacesDir \o <<Separator>>),
          branch |-> st.currentBranch, path |-> st.currentPath]>> \o st.workspaces
  ELSE st.workspaces

\* A plausible slip: the bare marker is not looked at.
appendWorkspaceBare(st) ==
  IF HasPrefix(st.currentPath, SpacesDir \o <<Separator>>)
  THEN Append(st.workspaces,
              [name |-> TrimPrefix(st.currentPath, SpacesDir \o <<Separator>>),
               branch |-> st.currentBranch, path |-> st.currentPath])
  ELSE st.workspaces

\* cmdList: the current record is appended when it is not bare and its path
\* is under spaces/.
appendWorkspace(st) ==
  IF ~st.isBare /\ HasPrefix(st.currentPath, SpacesDir \o <<Separator>>)
  THEN Append(st.workspaces,
              [name |-> TrimPrefix(st.currentPath, SpacesDir \o <<Separator>>),
               branch |-> st.currentBranch, path |-> st.currentPath])
  ELSE st.workspaces

\* cmdList: one turn of the loop over the lines.
listLine(st, line) ==
  IF HasPrefix(line, WorktreePrefix)
  THEN [st EXCEPT !.currentPath = TrimPrefix(line, WorktreePrefix),
                  !.currentBranch = <<>>, !.isBare = FALSE]
  ELSE IF line = BareLine THEN [st EXCEPT !.isBare = TRUE]
  ELSE IF HasPrefix(line, BranchPrefix)
  THEN [st EXCEPT !.currentBranch =
                     TrimPrefix(TrimPrefix(line, BranchPrefix), HeadsPrefix)]
  ELSE IF line = <<>> /\ st.currentPath # <<>>
  THEN [currentPath |-> <<>>, currentBranch |-> <<>>, isBare |-> FALSE,
        workspaces |-> appendWorkspace(st)]
  ELSE st

RECURSIVE listLoop(_, _)
listLoop(lines, st) ==
  IF lines = <<>> THEN st ELSE listLoop(Tail(lines), listLine(st, Head(lines)))

\* A plausible slip: the record pending at the end of the input is dropped.
lastEntryDropped(st) == st.workspaces

\* cmdList: the last entry, when the output does not end with a blank line
lastEntry(st) ==
  IF st.currentPath # <<>> THEN appendWorkspace(st) ELSE st.workspaces

\* cmdList: the workspaces collected from the output of the listing
listWorkspaces(out) ==
  lastEntry(listLoop(Split(out),
                     [currentPath |-> <<>>, currentBranch |-> <<>>, isBare |-> FALSE,
                      workspaces |-> <<>>]))

\* What git prints for one worktree record: its path, then the bare marker,
\* or the HEAD and the branch reference (`detached` when there is none).
renderRecord(r) ==
  WorktreePrefix \o r.path \o <<NL>>
    \o (IF r.bare THEN BareLine \o <<NL>>
        ELSE <<"H", "E", "A", "D", " ", "0">> \o <<NL>>
               \o (IF r.ref = <<>> THEN <<"d", "e", "t", "a", "c", "h", "e", "d">> ELSE BranchPrefix \o r.ref) \o <<NL>>)

\* The listing of records rs: a blank line after each record; end tells
\* whether the output stops after the last blank line ("blank"), before it
\* ("newline"), or before the last newline ("none").
RECURSIVE renderListing(_, _)
renderListing(rs, end) ==
  IF rs = <<>> THEN <<>>
  ELSE IF Len(rs) > 1 THEN renderRecord(Head(rs)) \o <<NL>> \o renderListing(Tail(rs), end)
  ELSE LET t == renderRecord(Head(rs))
       IN  IF end = "blank" THEN t \o <<NL>>
           ELSE IF end = "newline" THEN t
           ELSE SubSeq(t, 1, Len(t) - 1)

\* The absolute path a path of the model stands for.
PathText(path) ==
  IF path.root # "<root>" THEN path.name
  ELSE IF path.dir = "" THEN RootText
  ELSE RootText \o <<Separator>> \o <<"s", "p", "a", "c", "e", "s">> \o <<Separator>> \o path.name

\* the elements of a set of names, in some order
RECURSIVE SeqOf(_)
SeqOf(S) ==
  IF S = {} THEN <<>>
  ELSE LET x == CHOOSE y \in S : TRUE IN <<x>> \o SeqOf(S \ {x})

\* The records git lists for the project: the bare repository at the root,
\* then one record per worktree.
WorldRecords ==
  <<[path |-> RootText, bare |-> TRUE, ref |-> <<>>]>>
    \o [i \in 1..Cardinality(DOMAIN worktrees) |->
          LET w == SeqOf(DOMAIN worktrees)[i]
          IN  [path |-> PathText(SpacesPath(w)), bare |-> FALSE,
               ref |-> IF worktrees[w] = Detached THEN <<>>
                       ELSE HeadsPrefix \o worktrees[w]]]

(***************************************************************************)
(* remove: cmdRemove, validateWorktree                                     *)
(***************************************************************************)
\* what the `remove` workflow never touches
outsideRemove == <<renameVars, newVars, initVars, regVars, mainVars, settingsVars>>

\* The directory a path names exists (filepath.EvalSymlinks succeeds).
PathExists(path) ==
  \/ path = ProjectRoot
  \/ path.dir = "spaces" /\ path.name \in DOMAIN worktrees

\* A plausible slip: a record is accepted by its path alone, at its
\* `worktree` line.
RECURSIVE validateLoopByPath(_, _, _)
validateLoopByPath(lines, currentWorktree, target) ==
  IF lines = <<>> THEN [err |-> TRUE, branch |-> <<>>]
  ELSE IF HasPrefix(Head(lines), WorktreePrefix)
          /\ TrimPrefix(Head(lines), WorktreePrefix) = target
  THEN [err |-> FALSE, branch |-> <<>>]
  ELSE validateLoopByPath(Tail(lines), currentWorktree, target)

\* validateWorktree: the loop over the lines of the listing.  It returns at
\* the first `branch` line read while the current record is the target; a
\* `bare` line forgets the current record.
RECURSIVE validateLoop(_, _, _)
validateLoop(lines, currentWorktree, target) ==
  IF lines = <<>> THEN [err |-> TRUE, branch |-> <<>>]
  ELSE LET line == Head(lines)
           cw   == IF HasPrefix(line, WorktreePrefix)
                   THEN TrimPrefix(line, WorktreePrefix) ELSE currentWorktree
       IN  IF line = BareLine THEN validateLoop(Tail(lines), <<>>, target)
           ELSE IF HasPrefix(line, BranchPrefix) /\ cw = target
           THEN [err |-> FALSE,
                 branch |-> TrimPrefix(TrimPrefix(line, BranchPrefix), HeadsPrefix)]
           ELSE validateLoop(Tail(lines), cw, target)

\* validateWorktree(targetPath, projectRoot); out is the output of the
\* listing, NoFile when the command failed.
validateWorktree(target, out) ==
  IF out = NoFile THEN [err |-> TRUE, branch |-> <<>>]
  ELSE validateLoop(Split(out), <<>>, target)

\* A plausible slip: any answer that begins with y or Y is taken as a yes.
confirmedPrefix(input) == input # <<>> /\ Head(input) \in {"y", "Y"}

\* the answer lets the removal proceed
confirmed(input) == input = <<"y">> \/ input = <<"Y">>

\* cmdRemove: findProjectRoot, the target directory, and its resolution.
cmdRemove_target(p) ==
  /\ pc[p] = "cmdRemove"
  /\ \E rootOk \in BOOLEAN, cwd \in {ProjectRoot} \cup {SpacesPath(w) : w \in DOMAIN worktrees} :
       LET target == IF Len(args[p]) > 0 /\ args[p][1] # <<>>
                     THEN SpacesPath(args[p][1]) ELSE cwd
       IN  IF rootOk /\ PathExists(target)
           THEN /\ targetPath' = [targetPath EXCEPT ![p] = target]
                /\ Goto(p, "validateWorktree")
           ELSE /\ Exit(p, 1)
                /\ UNCHANGED targetPath
  /\ UNCHANGED <<branchName, args, steps, calls, stdout, worldVars, outsideRemove>>

\* cmdRemove: the target must be a registered worktree with a branch.
cmdRemove_validate(p) ==
  /\ pc[p] = "validateWorktree"
  /\ \E listOk \in BOOLEAN :
       LET out == IF listOk THEN renderListing(WorldRecords, "blank") ELSE NoFile
           r   == validateWorktree(PathText(targetPath[p]), out)
       IN  /\ Log(p, Call("git worktree list --porcelain", ProjectRoot, NoPath, <<>>, listOk))
           /\ IF r.err
              THEN Exit(p, 1) /\ UNCHANGED branchName
              ELSE /\ branchName' = [branchName EXCEPT ![p] = r.branch]
                   /\ Goto(p, "confirm")
  /\ UNCHANGED <<targetPath, args, steps, stdout, worldVars, outsideRemove>>

\* cmdRemove: the confirmation prompt.
cmdRemove_confirm(p) ==
  /\ pc[p] = "confirm"
  /\ \E typed \in PromptInputs :
       LET r     == ReadString(typed)
           input == TrimSpace(r.line)
       IN  /\ Log(p, Call("confirm", NoPath, NoPath, typed, ~r.err))
           /\ IF r.err
              THEN Exit(p, 1) /\ UNCHANGED stdout
              ELSE IF ~confirmed(input)
              THEN Stdout(p, "Aborted.") /\ Exit(p, 0)
              ELSE Goto(p, "deleteDDEV") /\ UNCHANGED stdout
  /\ UNCHANGED <<removeVars, args, steps, worldVars, outsideRemove>>

\* cmdRemove step 1: `ddev delete` when the worktree has a declaration.
\* A plausible slip: a failed `ddev delete` ends the run.
teardownFatalOnError(ok) == ~ok

\* whether the outcome of `ddev delete` ends the run: its failure is a warning
teardownFatal(ok) == FALSE

cmdRemove_deleteDDEV(p) ==
  /\ pc[p] = "deleteDDEV"
  /\ LET name == targetPath[p].name
     IN  IF DeclOf(name) # NoFile
         THEN \E ok \in BOOLEAN :
                /\ Log(p, Call("ddev delete --omit-snapshot -y", targetPath[p],
                               NoPath, <<>>, ok))
                /\ envs' = IF ok /\ ~EnvNameOf(name).err
                              /\ EnvNameOf(name).name \in DOMAIN envs
                              /\ envs[EnvNameOf(name).name] = name
                           THEN Drop(envs, EnvNameOf(name).name)
                           ELSE envs
                /\ AddSteps(p, <<StepResult("DDEV project",
                                   IF ok THEN "Deleted" ELSE "Failed to delete", <<>>)>>)
                /\ IF teardownFatal(ok) THEN Exit(p, 1) ELSE Goto(p, "removeWorktree")
         ELSE /\ AddSteps(p, <<StepResult("DDEV project",
                                 "Skipped (no .ddev/config.yaml)", <<>>)>>)
              /\ Goto(p, "removeWorktree")
              /\ UNCHANGED <<calls, envs>>
  /\ UNCHANGED <<removeVars, args, stdout, outsideRemove>>
  /\ UNCHANGED <<branches, otherRefs, originDevelop, worktrees, decl, settings, dbDump>>

\* A plausible slip: a failed worktree removal is a warning like the others.
removalFatalNever(ok) == FALSE

\* whether the outcome of `git worktree remove` ends the run
removalFatal(ok) == ~ok

\* cmdRemove step 2: `git worktree remove --force`; its failure is fatal.
cmdRemove_removeWorktree(p) ==
  /\ pc[p] = "removeWorktree"
  /\ LET name == targetPath[p].name
     IN  \E ok \in {b \in BOOLEAN : b => name \in DOMAIN worktrees} :
           /\ Log(p, Call("git worktree remove --force", ProjectRoot, targetPath[p],
                          <<>>, ok))
           /\ IF removalFatal(ok)
              THEN /\ Exit(p, 1)
                   /\ UNCHANGED <<worktrees, decl, settings, steps>>
              ELSE /\ worktrees' = IF ok THEN Drop(worktrees, name) ELSE worktrees
                   /\ decl' = IF ok THEN Drop(decl, name) ELSE decl
                   /\ settings' = IF ok THEN Drop(settings, name) ELSE settings
                   /\ AddSteps(p, <<StepResult("Git worktree", "Removed ", name)>>)
                   /\ Goto(p, "deleteBranch")
  /\ UNCHANGED <<removeVars, args, stdout, outsideRemove>>
  /\ UNCHANGED <<branches, otherRefs, originDevelop, envs, dbDump>>

\* `git branch -D b` can succeed: b exists and no worktree has it checked out.
CanDeleteBranch(b) ==
  b \in branches /\ \A w \in DOMAIN worktrees : worktrees[w] # b

\* cmdRemove step 3: `git branch -D`; its failure is a warning.
cmdRemove_deleteBranch(p) ==
  /\ pc[p] = "deleteBranch"
  /\ \E ok \in {b \in BOOLEAN : b => CanDeleteBranch(branchName[p])} :
       /\ Log(p, Call("git branch -D", ProjectRoot, NoPath, branchName[p], ok))
       /\ branches' = IF ok THEN branches \ {branchName[p]} ELSE branches
       /\ AddSteps(p, <<StepResult("Branch", IF ok THEN "Deleted " ELSE "Failed to delete ",
                                   branchName[p])>>)
  /\ Goto(p, "prune")
  /\ UNCHANGED <<removeVars, args, stdout, outsideRemove>>
  /\ UNCHANGED <<otherRefs, originDevelop, worktrees, decl, settings, envs, dbDump>>

\* A plausible slip: a failed prune leaves no entry.
pruneStepsOnSuccess(ok) ==
  IF ok THEN <<StepResult("Docker build cache", "Pruned", <<>>)>> ELSE <<>>

\* the entry step 4 appends to the steps
pruneSteps(ok) ==
  <<StepResult("Docker build cache", IF ok THEN "Pruned" ELSE "Failed to prune", <<>>)>>

\* cmdRemove step 4: `docker builder prune -f`, then the summary.
cmdRemove_prune(p) ==
  /\ pc[p] = "prune"
  /\ \E ok \in BOOLEAN :
       /\ Log(p, Call("docker builder prune -f", NoPath, NoPath, <<>>, ok))
       /\ AddSteps(p, pruneSteps(ok))
  /\ Stdout(p, "=== Workspace Removal Complete ===")
  /\ Exit(p, 0)
  /\ UNCHANGED <<removeVars, args, worldVars, outsideRemove>>

(***************************************************************************)
(* init: cmdInit, extractProjectName, detectDefaultBranch, cleanupInit     *)
(***************************************************************************)
\* what the `init` workflow never touches
outsideInit == <<renameVars, newVars, removeVars, regVars, mainVars, settingsVars>>

\* strings.TrimRight(s, "/")
RECURSIVE TrimRightSlash(_)
TrimRightSlash(s) ==
  IF s # <<>> /\ s[Len(s)] = "/" THEN TrimRightSlash(SubSeq(s, 1, Len(s) - 1)) ELSE s

\* filepath.Base(path): the last element, trailing slashes removed first;
\* "." for the empty path, "/" for a path of slashes only
Base(path) ==
  LET t == TrimRightSlash(path)
      cuts == {i \in 1..Len(t) : t[i] = "/"}
  IN  IF path = <<>> THEN <<".">>
      ELSE IF t = <<>> THEN <<"/">>
      ELSE IF cuts = {} THEN t
      ELSE SubSeq(t, (CHOOSE i \in cuts : \A j \in cuts : j <= i) + 1, Len(t))

DotGit == <<".", "g", "i", "t">>

\* strings.TrimSuffix(s, ".git")
TrimSuffixGit(s) ==
  IF Len(s) >= Len(DotGit) /\ SubSeq(s, Len(s) - Len(DotGit) + 1, Len(s)) = DotGit
  THEN SubSeq(s, 1, Len(s) - Len(DotGit)) ELSE s

extractProjectName(remoteURL) == TrimSuffixGit(Base(TrimRightSlash(remoteURL)))

RemotePrefix ==
  <<"r", "e", "f", "s", "/", "r", "e", "m", "o", "t", "e", "s", "/",
    "o", "r", "i", "g", "i", "n", "/">>

\* detectDefaultBranch: symref is the output of `git symbolic-ref
\* refs/remotes/origin/HEAD` (NoFile when the command fails), remote the
\* branches under refs/remotes/origin; the empty name when none is found.
detectDefaultBranch(symref, remote) ==
  IF symref # NoFile /\ TrimPrefix(TrimSpace(symref), RemotePrefix) # TrimSpace(symref)
  THEN TrimPrefix(TrimSpace(symref), RemotePrefix)
  ELSE IF nMain \in remote THEN nMain
  ELSE IF nMaster \in remote THEN nMaster
  ELSE <<>>

\* A plausible slip: the check is left out.
dirExistsNever(d) == FALSE

\* os.Stat(projectDir) returns no error
dirExists(d) == d.exists

\* A plausible slip: the directory is not removed.
removeAllKeeps(d, ok) == d

\* the directory after os.RemoveAll(projectDir) returned
removeAll(d, ok) == IF ok THEN NoDir ELSE d

ProjectDirPath == [root |-> "<cwd>", dir |-> "", name |-> <<>>]

\* A step of cmdInit failed: the commands cs it ran are logged, then
\* cleanupInit(projectDir) and os.Exit(1).
cleanupInit(p, cs) ==
  /\ \E ok \in BOOLEAN :
       /\ calls' = [calls EXCEPT ![p] =
                      @ \o cs \o <<Call("os.RemoveAll", NoPath, ProjectDirPath, <<>>, ok)>>]
       /\ projectDir' = removeAll(projectDir, ok)
  /\ Exit(p, 1)
  /\ UNCHANGED steps

\* A step of cmdInit succeeded: its commands cs are logged, entries e are
\* added to the project directory, ss to the steps.
initStep(p, cs, e, ss, next) ==
  /\ calls' = [calls EXCEPT ![p] = @ \o cs]
  /\ projectDir' = [projectDir EXCEPT !.entries = @ \cup e]
  /\ AddSteps(p, ss)
  /\ Goto(p, next)

\* cmdInit: the arguments, the existence check, and step 1 (MkdirAll).
cmdInit(p) ==
  /\ pc[p] = "cmdInit"
  /\ LET a == args[p]
         projectName == IF Len(a) = 2 THEN a[2] ELSE extractProjectName(a[1])
     IN  IF Len(a) < 1 \/ Len(a) > 2
         THEN Exit(p, 1) /\ UNCHANGED <<calls, projectDir>>
         ELSE IF projectName = <<>>
         THEN Exit(p, 1) /\ UNCHANGED <<calls, projectDir>>
         ELSE \E getwdOk \in BOOLEAN, mkdirOk \in BOOLEAN :
                IF ~getwdOk \/ dirExists(projectDir)
                THEN Exit(p, 1) /\ UNCHANGED <<calls, projectDir>>
                ELSE /\ Log(p, Call("os.MkdirAll", NoPath, ProjectDirPath, <<>>, mkdirOk))
                     /\ IF mkdirOk
                        THEN /\ projectDir' = [projectDir EXCEPT !.exists = TRUE]
                             /\ Goto(p, "clone")
                        ELSE /\ Exit(p, 1)
                             /\ UNCHANGED projectDir
  /\ UNCHANGED <<defaultBranch, projectDir0, args, steps, stdout, worldVars, outsideInit>>

\* cmdInit steps 2 to 4: the bare clone, the .git file, the fetch mapping
\* and the fetch.
cmdInit_clone(p) ==
  /\ pc[p] = "clone"
  /\ \E ok \in BOOLEAN :
       LET c == Call("git clone --bare", NoPath, ProjectDirPath, args[p][1], ok)
       IN  IF ok THEN initStep(p, <<c>>, {".bare"},
                          <<StepResult("Cloned repository (bare)", ".bare", <<>>)>>, "gitFile")
           ELSE cleanupInit(p, <<c>>)
  /\ UNCHANGED <<defaultBranch, projectDir0, args, stdout, worldVars, outsideInit>>

cmdInit_gitFile(p) ==
  /\ pc[p] = "gitFile"
  /\ \E ok \in BOOLEAN :
       LET c == Call("os.WriteFile .git", NoPath, ProjectDirPath, <<>>, ok)
       IN  IF ok THEN initStep(p, <<c>>, {".git"},
                          <<StepResult("Created .git file", ".git", <<>>)>>, "config")
           ELSE cleanupInit(p, <<c>>)
  /\ UNCHANGED <<defaultBranch, projectDir0, args, stdout, worldVars, outsideInit>>

\* A plausible slip: the outcome of `git config` is not looked at.
configFatalNever(ok) == FALSE

\* whether cmdInit cleans up and exits after `git config` returned
configFatal(ok) == ~ok

\* cmdInit step 4: the fetch mapping.
cmdInit_config(p) ==
  /\ pc[p] = "config"
  /\ \E ok \in BOOLEAN :
       LET c == Call("git config remote.origin.fetch", ProjectDirPath, NoPath, <<>>, ok)
       IN  IF ~configFatal(ok) THEN initStep(p, <<c>>, {}, <<>>, "fetch")
           ELSE cleanupInit(p, <<c>>)
  /\ UNCHANGED <<defaultBranch, projectDir0, args, stdout, worldVars, outsideInit>>

cmdInit_fetch(p) ==
  /\ pc[p] = "fetch"
  /\ \E ok \in BOOLEAN :
       LET c == Call("git fetch origin", ProjectDirPath, NoPath, <<>>, ok)
       IN  IF ok THEN initStep(p, <<c>>, {},
                          <<StepResult("Configured fetch refspec", "Fetched all branches", <<>>)>>,
                          "detectDefaultBranch")
           ELSE cleanupInit(p, <<c>>)
  /\ UNCHANGED <<defaultBranch, projectDir0, args, stdout, worldVars, outsideInit>>

\* What `git symbolic-ref refs/remotes/origin/HEAD` may print.
SymRefs ==
  { NoFile,
    RemotePrefix \o nDevelop \o <<NL>>,
    <<"r", "e", "f", "s", "/", "h", "e", "a", "d", "s", "/">> \o nMain \o <<NL>> }

\* cmdInit step 5: the default branch.
cmdInit_detectDefaultBranch(p) ==
  /\ pc[p] = "detectDefaultBranch"
  /\ \E symref \in SymRefs, remote \in SUBSET {nMain, nMaster} :
       LET b == detectDefaultBranch(symref, remote)
           c == Call("detectDefaultBranch", ProjectDirPath, NoPath, b, b # <<>>)
       IN  IF b = <<>>
           THEN cleanupInit(p, <<c>>) /\ UNCHANGED <<defaultBranch, branches>>
           ELSE /\ defaultBranch' = [defaultBranch EXCEPT ![p] = b]
                /\ branches' = {b}
                /\ initStep(p, <<c>>, {}, <<StepResult("Default branch", "", b)>>, "mkdirs")
  /\ UNCHANGED <<projectDir0, args, stdout, outsideInit>>
  /\ UNCHANGED <<otherRefs, originDevelop, worktrees, decl, settings, envs, dbDump>>

\* cmdInit step 6: the spaces/ and db/ directories.
cmdInit_mkdirs(p) ==
  /\ pc[p] = "mkdirs"
  /\ \E spacesOk \in BOOLEAN, dbOk \in BOOLEAN :
       LET cs == Call("os.MkdirAll spaces", NoPath, ProjectDirPath, <<>>, spacesOk)
           cd == Call("os.MkdirAll db", NoPath, ProjectDirPath, <<>>, dbOk)
       IN  IF ~spacesOk THEN cleanupInit(p, <<cs>>)
           ELSE IF ~dbOk THEN cleanupInit(p, <<cs, cd>>)
           ELSE initStep(p, <<cs, cd>>, {"spaces", "db"}, <<>>, "initWorktree")
  /\ UNCHANGED <<defaultBranch, projectDir0, args, stdout, worldVars, outsideInit>>

\* cmdInit step 6, continued: the worktree of the default branch.
cmdInit_worktreeAdd(p) ==
  /\ pc[p] = "initWorktree"
  /\ LET b == defaultBranch[p]
     IN  \E ok \in {x \in BOOLEAN : x => b \notin DOMAIN worktrees} :
           LET c == Call("git worktree add", ProjectDirPath, SpacesPath(b), b, ok)
           IN  IF ok
               THEN /\ worktrees' = Put(worktrees, b, b)
                    /\ \E d \in WtDecls : decl' = Put(decl, b, d)
                    /\ settings' = Put(settings, b, NoFile)
                    /\ initStep(p, <<c>>, {}, <<StepResult("Created worktree", "", b)>>,
                                "initDDEV")
               ELSE /\ cleanupInit(p, <<c>>)
                    /\ UNCHANGED <<worktrees, decl, settings>>
  /\ UNCHANGED <<defaultBranch, projectDir0, args, stdout, outsideInit>>
  /\ UNCHANGED <<branches, otherRefs, originDevelop, envs, dbDump>>

\* cmdInit step 7: `ddev start` when the worktree has a declaration; its
\* failure is a warning.
cmdInit_ddevStart(p) ==
  /\ pc[p] = "initDDEV"
  /\ LET b == defaultBranch[p]
     IN  IF DeclOf(b) = NoFile
         THEN /\ AddSteps(p, <<StepResult("DDEV", "Skipped (no .ddev/config.yaml found)",
                                          <<>>)>>)
              /\ printSummary(p)
              /\ UNCHANGED <<calls, envs>>
         ELSE \E ok \in {x \in BOOLEAN : x => CanStart(b)} :
                /\ Log(p, Call("ddev start", SpacesPath(b), NoPath, <<>>, ok))
                /\ IF ok
                   THEN /\ envs' = Put(envs, EnvNameOf(b).name, b)
                        /\ AddSteps(p, <<StepResult("DDEV", "Started", <<>>)>>)
                        /\ Goto(p, "initImport")
                        /\ UNCHANGED stdout
                   ELSE /\ AddSteps(p, <<StepResult("DDEV", "Failed to start", <<>>)>>)
                        /\ printSummary(p)
                        /\ UNCHANGED envs
  /\ UNCHANGED <<initVars, args, outsideInit>>
  /\ UNCHANGED <<branches, otherRefs, originDevelop, worktrees, decl, settings, dbDump>>

\* cmdInit step 7, continued: handleDBImport; its failure is a warning.
cmdInit_handleDBImport(p) ==
  /\ pc[p] = "initImport"
  /\ \E typed \in PromptInputs, importOk \in BOOLEAN :
       LET d == dbImportDecision(dbDump, typed)
       IN  /\ calls' = [calls EXCEPT ![p] =
                @ \o (IF d.prompted
                      THEN <<Call("prompt", NoPath, NoPath, typed, ~ReadString(typed).err)>>
                      ELSE <<>>)
                  \o (IF ~d.err /\ ~d.skip
                      THEN <<Call("ddev import-db", SpacesPath(defaultBranch[p]), d.path,
                                  <<>>, importOk)>>
                      ELSE <<>>)]
           /\ AddSteps(p, <<StepResult("Database",
                              IF d.err \/ (~d.skip /\ ~importOk) THEN "Failed"
                              ELSE IF d.skip THEN "Skipped (no import)"
                              ELSE "Imported from ",
                              d.path.name)>>)
  /\ printSummary(p)
  /\ UNCHANGED <<initVars, args, worldVars, outsideInit>>

(***************************************************************************)
(* main, printUsage, cmdList                                               *)
(***************************************************************************)
cInit == <<"i", "n", "i", "t">>
cNew == <<"n", "e", "w">>
cRemove == <<"r", "e", "m", "o", "v", "e">>
cList == <<"l", "i", "s", "t">>
cLs == <<"l", "s">>
cHelp == <<"-", "-", "h", "e", "l", "p">>
cH == <<"-", "h">>

Usage == "Usage: workspace <command> [arguments]"
UnknownCommand == "Unknown command"

\* printUsage()
printUsage(p) == stderr' = [stderr EXCEPT ![p] = Append(@, Usage)]

\* A plausible slip: an unknown command is taken for `list`.
subcommandLenient(a) ==
  IF a = cInit THEN "cmdInit"
  ELSE IF a = cNew THEN "cmdNewFromArgs"
  ELSE IF a = cRemove THEN "cmdRemove"
  ELSE IF a \in {cHelp, cH} THEN "help"
  ELSE "cmdList"

\* the case main's switch takes for args[0]
subcommand(a) ==
  IF a = cInit THEN "cmdInit"
  ELSE IF a = cNew THEN "cmdNewFromArgs"
  ELSE IF a = cRemove THEN "cmdRemove"
  ELSE IF a \in {cList, cLs} THEN "cmdList"
  ELSE IF a \in {cHelp, cH} THEN "help"
  ELSE "default"

\* main: args holds os.Args[1:] on entry and os.Args[2:] once a workflow
\* has been entered.
main(p) ==
  /\ pc[p] = "main"
  /\ IF Len(args[p]) = 0
     THEN printUsage(p) /\ Exit(p, 1) /\ UNCHANGED args
     ELSE LET case == subcommand(args[p][1])
          IN  IF case = "help"
              THEN printUsage(p) /\ Exit(p, 0) /\ UNCHANGED args
              ELSE IF case = "default"
              THEN /\ stderr' = [stderr EXCEPT ![p] = @ \o <<UnknownCommand, Usage>>]
                   /\ Exit(p, 1)
                   /\ UNCHANGED args
              ELSE /\ args' = [args EXCEPT ![p] = Tail(@)]
                   /\ Goto(p, case)
                   /\ UNCHANGED stderr
  /\ UNCHANGED <<steps, calls, stdout, listed>>
  /\ UNCHANGED <<renameVars, worldVars, newVars, removeVars, initVars, regVars, settingsVars>>

NoWorkspaces == "No workspaces found."
DetachedText == <<"(", "d", "e", "t", "a", "c", "h", "e", "d", ")">>

\* the line cmdList prints for a workspace
listLineOf(ws) == <<ws.name, IF ws.branch # <<>> THEN ws.branch ELSE DetachedText>>

\* cmdList: the project root, the listing, the workspaces under spaces/.
cmdList(p) ==
  /\ pc[p] = "cmdList"
  /\ \E rootOk \in BOOLEAN, listOk \in BOOLEAN :
       IF ~rootOk
       THEN Exit(p, 1) /\ UNCHANGED <<calls, stdout, listed>>
       ELSE /\ Log(p, Call("git worktree list --porcelain", ProjectRoot, NoPath, <<>>, listOk))
            /\ IF ~listOk
               THEN Exit(p, 1) /\ UNCHANGED <<stdout, listed>>
               ELSE LET workspaces == listWorkspaces(renderListing(WorldRecords, "blank"))
                    IN  /\ IF Len(workspaces) = 0
                           THEN Stdout(p, NoWorkspaces) /\ UNCHANGED listed
                           ELSE /\ listed' = [listed EXCEPT ![p] =
                                     [i \in 1..Len(workspaces) |-> listLineOf(workspaces[i])]]
                                /\ UNCHANGED stdout
                        /\ Exit(p, 0)
  /\ UNCHANGED <<args, steps, stderr>>
  /\ UNCHANGED <<renameVars, worldVars, newVars, removeVars, initVars, regVars, settingsVars>>

(***************************************************************************)
(* Initial values                                                          *)
(***************************************************************************)
\* no rename experiment
IdleRename ==
  /\ rnFile = NoFile /\ rnBefore = NoFile
  /\ rnIdent = <<>> /\ rnOrig = <<>>
  /\ rnErr = FALSE /\ rnCount = 0

\* no project
IdleWorld ==
  /\ branches = {} /\ otherRefs = {} /\ originDevelop = FALSE
  /\ worktrees = EmptyMap /\ decl = EmptyMap /\ settings = EmptyMap
  /\ envs = EmptyMap /\ dbDump = FALSE

IdleInit == projectDir = NoDir /\ projectDir0 = NoDir

\* no settings file under study
IdleSettings ==
  /\ stFile = NoFile /\ stName = <<>> /\ stBefore = NoFile /\ stErr = FALSE /\ stCount = 0

\* no listing under study
IdleRegistry ==
  /\ regRecords = <<>> /\ regEnd = "blank" /\ regTarget = <<>>
  /\ regWorkspaces = <<>> /\ regValid = [err |-> FALSE, branch |-> <<>>]
  /\ regPhase = "input"

\* the locals of every process before its workflow has run
InitLocals ==
  /\ worktreeName = [p \in Procs |-> <<>>]
  /\ identifier = [p \in Procs |-> <<>>]
  /\ baseBranch = [p \in Procs |-> <<>>]
  /\ hasDDEV = [p \in Procs |-> FALSE]
  /\ originalName = [p \in Procs |-> <<>>]
  /\ ddevName = [p \in Procs |-> <<>>]
  /\ branchExists = [p \in Procs |-> FALSE]
  /\ state = [p \in Procs |-> NoState]
  /\ steps = [p \in Procs |-> <<>>]
  /\ calls = [p \in Procs |-> <<>>]
  /\ stdout = [p \in Procs |-> <<>>]
  /\ stderr = [p \in Procs |-> <<>>]
  /\ listed = [p \in Procs |-> <<>>]
  /\ exitCode = [p \in Procs |-> Running]
  /\ targetPath = [p \in Procs |-> NoPath]
  /\ branchName = [p \in Procs |-> <<>>]
  /\ defaultBranch = [p \in Procs |-> <<>>]

\* no process runs
IdleProcs ==
  /\ InitLocals
  /\ pc = [p \in Procs |-> "idle"]
  /\ args = [p \in Procs |-> <<>>]

(***************************************************************************)
(* Specification of the ConfigMutator checks: rename applied, repeatedly,  *)
(* to an arbitrary file.                                                   *)
(***************************************************************************)
InitRename ==
  /\ rnFile \in Files \cup {NoFile}
  /\ rnIdent \in Idents
  /\ rnOrig \in OrigNames
  /\ rnBefore = rnFile
  /\ rnErr = FALSE
  /\ rnCount = 0
  /\ IdleWorld /\ IdleProcs /\ IdleInit /\ IdleRegistry /\ IdleSettings

Rename ==
  /\ rnCount < MaxRenames
  /\ \E writeFails \in BOOLEAN :
       LET r == renameDDEVProject(rnFile, rnIdent, rnOrig, writeFails)
       IN  /\ rnBefore' = rnFile
           /\ rnFile' = r.file
           /\ rnErr' = r.err
  /\ rnCount' = rnCount + 1
  /\ UNCHANGED <<rnIdent, rnOrig>>
  /\ UNCHANGED <<worldVars, newVars, procVars, removeVars, initVars, regVars, mainVars, settingsVars>>

NextRename == Rename

SpecRename == InitRename /\ [][NextRename]_vars

(***************************************************************************)
(* Specification of `new`: one invocation in a project                     *)
(***************************************************************************)
nProject == <<"p", "r", "o", "j", "e", "c", "t">>
nTask == <<"0", "0", "0", "1", "-", "n", "e", "w", "-", "t", "a", "s", "k">>
nAbc == <<"a", "b", "c">>
nAbcd == <<"a", "b", "c", "d">>
nNope == <<"n", "o", "p", "e">>

\* The two bytes of the UTF-8 encoding of U+00E9, and a name of three such
\* characters (six bytes).
ByteC3 == "\\xC3"
ByteA9 == "\\xA9"
nAccents == <<ByteC3, ByteA9, ByteC3, ByteA9, ByteC3, ByteA9>>

\* The argument vectors of `new` that are tried.
NewArgs ==
  { <<nTask>>, <<nAbc>>, <<nAbcd>>, <<nMain>>, <<nMaster, <<"x">>>>, <<nAccents>>,
    <<nTask, <<"x">>>>, <<nAbc, nTask>>,
    <<FlagBase, nDevelop, nTask>>, <<FlagBaseEq \o nDevelop, nTask>>,
    <<nTask, FlagBase>>, <<FlagBase, nNope, nTask>>,
    <<>>, <<nTask, nAbc, nAbcd>>, <<<<>>>> }

ProjectDecl == KeyPrefix \o nProject \o <<NL>>
CommentedDecl == <<"#">> \o KeyPrefix \o nProject \o <<NL>> \o KeyPrefix \o nProject \o <<NL>>

\* The workspaces a project may start with: name -> declaration.
Layouts ==
  {[w \in {nMain} |-> d] : d \in {NoFile, ProjectDecl, CommentedDecl, <<"t", NL>>}}
  \cup {[w \in {nMaster} |-> d] : d \in {NoFile, ProjectDecl}}
  \cup {[w \in {nMain, nMaster} |-> IF w = nMain THEN d ELSE e] :
          d \in {NoFile, <<"t", NL>>}, e \in {NoFile, ProjectDecl}}

\* Further names that resolve: [branches, otherRefs].
ExtraRefs ==
  { [branches |-> {}, otherRefs |-> {}],
    [branches |-> {nTask}, otherRefs |-> {}],
    [branches |-> {nMain}, otherRefs |-> {}],
    [branches |-> {}, otherRefs |-> {nAbcd}] }

\* A project with its first workspaces; each has its own branch checked out.
InitProject ==
  /\ \E l \in Layouts, x \in ExtraRefs :
       /\ decl = l
       /\ worktrees = [w \in DOMAIN l |-> w]
       /\ branches = DOMAIN l \cup {nDevelop} \cup x.branches
       /\ otherRefs = x.otherRefs
       /\ settings = [w \in DOMAIN l |-> NoFile]
       /\ envs \in {EmptyMap} \cup
                   {[n \in {nProject} |-> w] : w \in {v \in DOMAIN l : l[v] # NoFile}}
  /\ originDevelop \in BOOLEAN
  /\ dbDump \in BOOLEAN

InitNew ==
  /\ InitProject
  /\ InitLocals
  /\ pc = [p \in Procs |-> IF p = 1 THEN "cmdNewFromArgs" ELSE "idle"]
  /\ \E a \in NewArgs : args = [p \in Procs |-> IF p = 1 THEN a ELSE <<>>]
  /\ IdleRename /\ IdleInit /\ IdleRegistry /\ IdleSettings

NextNew ==
  \E p \in Procs :
    \/ cmdNewFromArgs(p)
    \/ cmdNew_findProjectRoot(p)
    \/ cmdNew_resolveBase(p)
    \/ cmdNew_findDDEVProjectName(p)
    \/ createWorktree_check(p)
    \/ createWorktree_add(p)
    \/ cmdNew_rename(p)
    \/ cmdNew_settings(p)
    \/ cmdNew_ddevStart(p)
    \/ cmdNew_handleDBImport(p)
    \/ cleanup_ddev(p)
    \/ cleanup_worktree(p)

SpecNew == InitNew /\ [][NextNew]_vars

(***************************************************************************)
(* Specification of `remove`: one invocation in a project with workspaces  *)
(***************************************************************************)
TaskDecl == KeyPrefix \o <<"0", "0", "0", "1", "-">> \o nProject \o <<NL>>
TaskEnv == <<"0", "0", "0", "1", "-">> \o nProject

\* The argument vectors of `remove` that are tried.
RemoveArgs ==
  { <<nTask>>, <<nAbcd>>, <<nNope>>, <<nMain>>, <<>>, <<<<>>>>, <<nTask, nAbc>> }

\* main, a task workspace on its own branch, and a workspace with a
\* detached HEAD.
InitRemoveProject ==
  /\ worktrees = [w \in {nMain, nTask, nAbcd} |->
                    IF w = nAbcd THEN Detached ELSE w]
  /\ \E d \in {NoFile, TaskDecl} :
       decl = [w \in {nMain, nTask, nAbcd} |->
                 IF w = nMain THEN ProjectDecl ELSE IF w = nTask THEN d ELSE NoFile]
  /\ settings = [w \in {nMain, nTask, nAbcd} |-> NoFile]
  /\ branches = {nMain, nDevelop, nTask}
  /\ otherRefs = {nAbcd}
  /\ originDevelop = TRUE
  /\ envs \in {EmptyMap, [n \in {TaskEnv} |-> nTask],
               [n \in {TaskEnv, nProject} |-> IF n = TaskEnv THEN nTask ELSE nMain]}
  /\ dbDump \in BOOLEAN

InitRemove ==
  /\ InitRemoveProject
  /\ InitLocals
  /\ pc = [p \in Procs |-> IF p = 1 THEN "cmdRemove" ELSE "idle"]
  /\ \E a \in RemoveArgs : args = [p \in Procs |-> IF p = 1 THEN a ELSE <<>>]
  /\ IdleRename /\ IdleInit /\ IdleRegistry /\ IdleSettings

NextRemove ==
  \E p \in Procs :
    \/ cmdRemove_target(p)
    \/ cmdRemove_validate(p)
    \/ cmdRemove_confirm(p)
    \/ cmdRemove_deleteDDEV(p)
    \/ cmdRemove_removeWorktree(p)
    \/ cmdRemove_deleteBranch(p)
    \/ cmdRemove_prune(p)

SpecRemove == InitRemove /\ [][NextRemove]_vars

\* A process that can take a step takes it: every command returns.
SpecRemoveLive == SpecRemove /\ WF_vars(NextRemove)

(***************************************************************************)
(* Specification of `init`: one invocation, no project yet                 *)
(***************************************************************************)
RemoteURL == <<"u", "/", "p", ".", "g", "i", "t">>

\* The argument vectors of `init` that are tried.
InitArgs ==
  { <<RemoteURL>>, <<<<"u", "/", "p", "/">>>>, <<DotGit>>, <<RemoteURL, <<"q">>>>,
    <<RemoteURL, <<>>>>, <<>>, <<RemoteURL, <<"q">>, <<"r">>>> }

\* The project directory may exist already, with something in it.
InitInit ==
  /\ projectDir \in {NoDir, [exists |-> TRUE, entries |-> {}],
                     [exists |-> TRUE, entries |-> {"kept"}]}
  /\ projectDir0 = projectDir
  /\ branches = {} /\ otherRefs = {} /\ originDevelop = FALSE
  /\ worktrees = EmptyMap /\ decl = EmptyMap /\ settings = EmptyMap
  /\ envs \in {EmptyMap, [n \in {nProject} |-> <<"e", "l", "s", "e", "w", "h", "e", "r", "e">>]}
  /\ dbDump = FALSE
  /\ InitLocals
  /\ pc = [p \in Procs |-> IF p = 1 THEN "cmdInit" ELSE "idle"]
  /\ \E a \in InitArgs : args = [p \in Procs |-> IF p = 1 THEN a ELSE <<>>]
  /\ IdleRename /\ IdleRegistry /\ IdleSettings

NextInit ==
  \E p \in Procs :
    \/ cmdInit(p)
    \/ cmdInit_clone(p)
    \/ cmdInit_gitFile(p)
    \/ cmdInit_config(p)
    \/ cmdInit_fetch(p)
    \/ cmdInit_detectDefaultBranch(p)
    \/ cmdInit_mkdirs(p)
    \/ cmdInit_worktreeAdd(p)
    \/ cmdInit_ddevStart(p)
    \/ cmdInit_handleDBImport(p)

SpecInit == InitInit /\ [][NextInit]_vars

(***************************************************************************)
(* Specification of two concurrent `new` runs for the same name against    *)
(* one project; their steps interleave, each external command is atomic    *)
(***************************************************************************)
PairProcs == {1, 2}

InitNewPair ==
  /\ decl = [w \in {nMain} |-> ProjectDecl]
  /\ worktrees = [w \in {nMain} |-> nMain]
  /\ branches \in {{nMain, nDevelop}, {nMain, nDevelop, nTask}}
  /\ otherRefs = {}
  /\ settings = [w \in {nMain} |-> NoFile]
  /\ envs = EmptyMap
  /\ originDevelop = TRUE
  /\ dbDump \in BOOLEAN
  /\ InitLocals
  /\ pc = [p \in Procs |-> IF p \in PairProcs THEN "cmdNewFromArgs" ELSE "idle"]
  /\ args = [p \in Procs |-> IF p \in PairProcs THEN <<nTask>> ELSE <<>>]
  /\ IdleRename /\ IdleInit /\ IdleRegistry /\ IdleSettings

SpecNewPair == InitNewPair /\ [][NextNew]_vars

(***************************************************************************)
(* Specification of the registry checks: cmdList's collection and          *)
(* validateWorktree applied to an arbitrary listing                        *)
(***************************************************************************)
MaxRecords == 2

\* The records a listing is made of: the bare repository, workspaces on a
\* branch and detached, a worktree outside spaces/, one whose directory
\* name only begins with `spaces`, and a bare record under spaces/.
RecordKinds ==
  { [path |-> RootText, bare |-> TRUE, ref |-> <<>>],
    [path |-> <<"/", "r", "/", "s", "p", "a", "c", "e", "s", "/", "a">>, bare |-> FALSE, ref |-> <<"r", "e", "f", "s", "/", "h", "e", "a", "d", "s", "/", "a">>],
    [path |-> <<"/", "r", "/", "s", "p", "a", "c", "e", "s", "/", "b">>, bare |-> FALSE, ref |-> <<>>],
    [path |-> <<"/", "r", "/", "s", "p", "a", "c", "e", "s", "x", "/", "c">>, bare |-> FALSE, ref |-> <<"r", "e", "f", "s", "/", "h", "e", "a", "d", "s", "/", "c">>],
    [path |-> <<"/", "r", "/", "s", "p", "a", "c", "e", "s", "/", "d", "/", "e">>, bare |-> FALSE, ref |-> <<"r", "e", "f", "s", "/", "h", "e", "a", "d", "s", "/", "d", "/", "e">>],
    [path |-> <<"/", "r", "/", "s", "p", "a", "c", "e", "s", "/", "c">>, bare |-> TRUE, ref |-> <<>>] }

Targets == {r.path : r \in RecordKinds} \cup {<<"/", "r", "/", "s", "p", "a", "c", "e", "s", "/", "z">>}

InitRegistry ==
  /\ regRecords \in UNION {[1..k -> RecordKinds] : k \in 0..MaxRecords}
  /\ regEnd \in {"blank", "newline", "none"}
  /\ regTarget \in Targets
  /\ regWorkspaces = <<>>
  /\ regValid = [err |-> FALSE, branch |-> <<>>]
  /\ regPhase = "input"
  /\ IdleRename /\ IdleWorld /\ IdleProcs /\ IdleInit /\ IdleSettings

List ==
  /\ regPhase = "input"
  /\ regWorkspaces' = listWorkspaces(renderListing(regRecords, regEnd))
  /\ regPhase' = "listed"
  /\ UNCHANGED <<regRecords, regEnd, regTarget, regValid>>
  /\ UNCHANGED <<renameVars, worldVars, newVars, procVars, removeVars, initVars, mainVars, settingsVars>>

Validate ==
  /\ regPhase \in {"input", "listed"}
  /\ regValid' = validateWorktree(regTarget, renderListing(regRecords, regEnd))
  /\ regPhase' = "validated"
  /\ UNCHANGED <<regRecords, regEnd, regTarget, regWorkspaces>>
  /\ UNCHANGED <<renameVars, worldVars, newVars, procVars, removeVars, initVars, mainVars, settingsVars>>

NextRegistry == List \/ Validate

SpecRegistry == InitRegistry /\ [][NextRegistry]_vars

(***************************************************************************)
(* Specification of the command line: three invocations of the tool, one   *)
(* after the other, in one project                                         *)
(***************************************************************************)
nTaskB == <<"0", "0", "0", "1", "-", "b">>
nBogus == <<"b", "o", "g", "u", "s">>

\* The command lines tried first, and those that may follow.
MainArgs ==
  { <<>>, <<nBogus>>, <<<<>>>>, <<nTask>>, <<cHelp>>, <<cH>>, <<cHelp, cNew, nTask>>,
    <<cList>>, <<cLs>>, <<cInit, RemoteURL>>,
    <<cNew, nTask>>, <<cNew, nAbc, <<"x">>>>, <<cRemove, nTask>> }
SecondArgs == { <<cRemove, nTask>>, <<cNew, nTaskB>> }
ThirdArgs == { <<cNew, nTaskB>> }

InitMain ==
  /\ worktrees = [w \in {nMain} |-> nMain]
  /\ decl = [w \in {nMain} |-> ProjectDecl]
  /\ settings = [w \in {nMain} |-> NoFile]
  /\ branches = {nMain, nDevelop}
  /\ otherRefs = {}
  /\ originDevelop = FALSE
  /\ envs = [n \in {nProject} |-> nMain]
  /\ dbDump = TRUE
  /\ InitLocals
  /\ pc = [p \in Procs |-> "main"]
  /\ \E a \in MainArgs, b \in SecondArgs, c \in ThirdArgs :
       args = [p \in Procs |-> IF p = 1 THEN a ELSE IF p = 2 THEN b ELSE c]
  /\ IdleRename /\ IdleInit /\ IdleRegistry /\ IdleSettings

\* The invocations follow one another: a process starts once those before
\* it have exited.
Turn(p) == \A o \in Procs : o < p => exitCode[o] # Running

NextMain ==
  \E p \in Procs :
    /\ Turn(p)
    /\ \/ main(p)
       \/ cmdList(p)
       \/ cmdNewFromArgs(p)
       \/ cmdNew_findProjectRoot(p)
       \/ cmdNew_resolveBase(p)
       \/ cmdNew_findDDEVProjectName(p)
       \/ createWorktree_check(p)
       \/ createWorktree_add(p)
       \/ cmdNew_rename(p)
       \/ cmdNew_settings(p)
       \/ cmdNew_ddevStart(p)
       \/ cmdNew_handleDBImport(p)
       \/ cleanup_ddev(p)
       \/ cleanup_worktree(p)
       \/ cmdRemove_target(p)
       \/ cmdRemove_validate(p)
       \/ cmdRemove_confirm(p)
       \/ cmdRemove_deleteDDEV(p)
       \/ cmdRemove_removeWorktree(p)
       \/ cmdRemove_deleteBranch(p)
       \/ cmdRemove_prune(p)
       \/ cmdInit(p)
       \/ cmdInit_clone(p)
       \/ cmdInit_gitFile(p)
       \/ cmdInit_config(p)
       \/ cmdInit_fetch(p)
       \/ cmdInit_detectDefaultBranch(p)
       \/ cmdInit_mkdirs(p)
       \/ cmdInit_worktreeAdd(p)
       \/ cmdInit_ddevStart(p)
       \/ cmdInit_handleDBImport(p)

SpecMain == InitMain /\ [][NextMain]_vars

(***************************************************************************)
(* Specification of the dependent-settings checks: updateSettingsDdevPHP   *)
(* applied to an arbitrary file                                            *)
(***************************************************************************)
MaxPieces == 3

\* What a settings file is made of: a comment block holding an assignment,
\* host assignments in both quotings, another statement, an opened comment.
SettingsPieces ==
  { <<"/", "*", "$", "h", "o", "s", "t", "=", "\"", "c", "\"", ";", "*", "/">> \o <<NL>>,
    <<"$", "h", "o", "s", "t", " ", "=", " ", "\"", "a", "\"", ";">> \o <<NL>>,
    <<"$", "h", "o", "s", "t", "=", "'", "b", "'", ";">>,
    <<"$", "x", ";">>,
    <<"/", "*">> }

RECURSIVE Concat(_)
Concat(ps) == IF ps = <<>> THEN <<>> ELSE Head(ps) \o Concat(Tail(ps))

SettingsFiles ==
  {Concat(ps) : ps \in UNION {[1..k -> SettingsPieces] : k \in 0..MaxPieces}} \cup {NoFile}

InitSettings ==
  /\ stFile \in SettingsFiles
  /\ stName \in {composeName(i, o) : i \in {<<"0">>, <<>>}, o \in {<<"p">>}}
  /\ stBefore = stFile
  /\ stErr = FALSE
  /\ stCount = 0
  /\ IdleRename /\ IdleWorld /\ IdleProcs /\ IdleInit /\ IdleRegistry

UpdateSettings ==
  /\ stCount < 1
  /\ \E writeFails \in BOOLEAN :
       LET r == updateSettingsDdevPHP(stFile, stName, writeFails)
       IN  /\ stBefore' = stFile
           /\ stFile' = r.file
           /\ stErr' = r.err
  /\ stCount' = stCount + 1
  /\ UNCHANGED stName
  /\ UNCHANGED <<renameVars, worldVars, newVars, procVars, removeVars, initVars, regVars, mainVars>>

NextSettings == UpdateSettings

SpecSettings == InitSettings /\ [][NextSettings]_vars

(***************************************************************************)
(* Properties of the ConfigMutator                                         *)
(***************************************************************************)

\* l is a whole line of the file
HasLine(file, l) ==
  file # NoFile /\ \E i \in 1..Len(ScanLines(file)) : ScanLines(file)[i] = l

\* the number of positions of file at which sub occurs
Occurrences(file, sub) == Cardinality({i \in 1..Len(file) : MatchAt(file, sub, i)})

\* The texts the documentation names, written out independently of the code.
OriginalText(o) == <<"n", "a", "m", "e", ":", " ">> \o o
RenamedText(i, o) == <<"n", "a", "m", "e", ":", " ">> \o i \o <<"-">> \o o

\* a rename call has just returned success
RenameSucceeded == rnCount >= 1 /\ ~rnErr

\* C9 as stated: for every file containing the line `name: <original>` and
\* every identifier, a successful rename leaves the file containing
\* `name: <identifier>-<original>` and no longer containing the original
\* `name: <original>` (read in the claim's favour: no line of the file is the
\* original line any more).
C9_RenameRemovesOriginal_AsStated ==
  (RenameSucceeded /\ HasLine(rnBefore, OriginalText(rnOrig)))
    => /\ Contains(rnFile, RenamedText(rnIdent, rnOrig))
       /\ ~HasLine(rnFile, OriginalText(rnOrig))

\* C9 amended: for every file containing the line `name: <original>` and
\* every identifier, a successful rename puts `name: <identifier>-<original>`
\* in the place of the first occurrence of the text `name: <original>` and
\* changes no other byte (later occurrences are kept); the original line is
\* no longer present provided the text occurred exactly once in the file, and
\* then the original text is absent altogether unless
\* `<identifier>-<original>`, followed by the rest of the file, itself begins
\* with `<original>`.
C9_RenameReplacesFirstOccurrence ==
  (RenameSucceeded /\ HasLine(rnBefore, OriginalText(rnOrig)))
    => LET old  == OriginalText(rnOrig)
           new  == RenamedText(rnIdent, rnOrig)
           i    == Index(rnBefore, old)
           head == SubSeq(rnBefore, 1, i - 1)
           rest == SubSeq(rnBefore, i + Len(old), Len(rnBefore))
       IN  /\ i >= 1
           /\ rnFile = head \o new \o rest
           /\ Contains(rnFile, new)
           /\ Occurrences(rnBefore, old) = 1 => ~HasLine(rnFile, old)
           /\ (/\ Occurrences(rnBefore, old) = 1
               /\ ~HasPrefix(rnIdent \o <<"-">> \o rnOrig \o rest, rnOrig))
                => ~Contains(rnFile, old)

\* C9 witness: a file with the original line has been renamed and the
\* original text is gone.
C9_Witness ==
  /\ rnCount = 1
  /\ ~rnErr
  /\ HasLine(rnBefore, OriginalText(rnOrig))
  /\ Len(ScanLines(rnBefore)) = 2
  /\ Contains(rnFile, RenamedText(rnIdent, rnOrig))
  /\ ~Contains(rnFile, OriginalText(rnOrig))

\* C10 as stated: renaming a file that lacks the exact original line
\* `name: <original>` returns an error and leaves the file content unchanged.
C10_RenameWithoutLineFails ==
  (rnCount >= 1 /\ ~HasLine(rnBefore, OriginalText(rnOrig)))
    => (rnErr /\ rnFile = rnBefore)

(***************************************************************************)
(* Properties of `new`                                                     *)
(***************************************************************************)
Done(p) == pc[p] = "done"

\* the positions in p's log of the invocations of cmd
CallsOf(p, cmd) == {i \in 1..Len(calls[p]) : calls[p][i].cmd = cmd}
Invoked(p, cmd) == CallsOf(p, cmd) # {}
Succeeded(p, cmd) == \E i \in CallsOf(p, cmd) : calls[p][i].ok
Failed(p, cmd) == \E i \in CallsOf(p, cmd) : ~calls[p][i].ok

WorktreeAdded(p) ==
  Succeeded(p, "git worktree add") \/ Succeeded(p, "git worktree add -b")

HasStep(p, description) ==
  \E i \in 1..Len(steps[p]) : steps[p][i].Description = description

Printed(p, msg) == \E i \in 1..Len(stdout[p]) : stdout[p][i] = msg

\* <root>/spaces/<name>, written out
WorkspacePath(name) == [root |-> "<root>", dir |-> "spaces", name |-> name]

\* the forced removal of p's worktree appears in the log after position i
RemovalAfter(p, i) ==
  \E j \in CallsOf(p, "git worktree remove --force") :
    j > i /\ calls[p][j].path = WorkspacePath(worktreeName[p])

\* C1: in every `new` run in which worktree creation returned success and
\* the environment start that follows failed, rollback invokes the forced
\* removal of the worktree at <root>/spaces/<name>, environment deletion is
\* not invoked, and the process exits with a non-zero status.
C1_StartFailureRollsBackWorktree ==
  \A p \in Procs :
    (Done(p) /\ WorktreeAdded(p) /\ Failed(p, "ddev start"))
      => /\ \E i \in CallsOf(p, "ddev start") : RemovalAfter(p, i)
         /\ ~Invoked(p, "ddev delete -O --omit-snapshot")
         /\ exitCode[p] # 0

\* C1 witness: a run whose start failed after its worktree was created has
\* ended, and the removal it invoked took the worktree away.
C1_Witness ==
  \E p \in Procs :
    /\ Done(p) /\ WorktreeAdded(p) /\ Failed(p, "ddev start")
    /\ Succeeded(p, "git worktree remove --force")
    /\ worktreeName[p] \notin DOMAIN worktrees

\* the data-import step of p failed after the environment was started
ImportFailed(p) ==
  /\ Done(p) /\ Succeeded(p, "ddev start")
  /\ \/ Failed(p, "ddev import-db")
     \/ Invoked(p, "prompt") /\ ~Invoked(p, "ddev import-db") /\ ~HasStep(p, "Database")

\* C2: when the data-import step of `new` fails after the environment was
\* started, rollback invokes environment deletion and then the forced
\* removal of the worktree, and the process exits non-zero; if both rollback
\* commands succeed, neither the environment started for the workspace nor
\* the worktree at <root>/spaces/<name> exists afterwards.
C2_ImportFailureRollsBackBoth ==
  \A p \in Procs :
    ImportFailed(p)
      => /\ \E i \in CallsOf(p, "ddev delete -O --omit-snapshot") :
              /\ calls[p][i].dir = WorkspacePath(worktreeName[p])
              /\ RemovalAfter(p, i)
         /\ exitCode[p] # 0
         /\ (Succeeded(p, "ddev delete -O --omit-snapshot") /\ Succeeded(p, "git worktree remove --force"))
              => /\ worktreeName[p] \notin DOMAIN worktrees
                 /\ \A n \in DOMAIN envs : envs[n] # worktreeName[p]

\* C2 witness: an import failed, both rollback commands succeeded.
C2_Witness ==
  \E p \in Procs :
    /\ ImportFailed(p) /\ Failed(p, "ddev import-db")
    /\ Succeeded(p, "ddev delete -O --omit-snapshot")
    /\ Succeeded(p, "git worktree remove --force")
    /\ worktreeName[p] \notin DOMAIN worktrees

\* file has a line that begins with `name: `
NamesEnvironment(file) ==
  /\ file # NoFile
  /\ \E i \in 1..Len(ScanLines(file)) :
       HasPrefix(ScanLines(file)[i], <<"n", "a", "m", "e", ":", " ">>)

\* neither <root>/spaces/main nor <root>/spaces/master has a readable
\* declaration with a name line
NoDeclaration ==
  \A w \in {nMain, nMaster} : ~NamesEnvironment(DeclOf(w))

EnvironmentSteps ==
  {"renameDDEVProject", "updateSettingsDdevPHP", "ddev start", "ddev import-db", "prompt"}

SkipDetail == "Skipped (no .ddev/config.yaml found in any worktree)"

\* C3: when no environment declaration is found, `new` still creates the
\* worktree (as far as git lets it), invokes no rename, no settings rewrite,
\* no environment start and no data import, records an explicit skip entry,
\* prints the summary and exits successfully.
C3_NoDeclarationSkipsEnvironment ==
  \A p \in Procs :
    NoDeclaration
      => /\ \A c \in EnvironmentSteps : ~Invoked(p, c)
         /\ WorktreeAdded(p)
              => /\ Done(p) /\ exitCode[p] = 0
                 /\ worktreeName[p] \in DOMAIN worktrees
                 /\ \E i \in 1..Len(steps[p]) :
                      steps[p][i].Description = "DDEV" /\ steps[p][i].Detail = SkipDetail
                 /\ Printed(p, "=== Workspace Setup Complete ===")
         /\ (Done(p) /\ exitCode[p] = 0) => WorktreeAdded(p)

\* C3 witness: with no declaration anywhere a run has ended successfully
\* with its worktree in place.
C3_Witness ==
  \E p \in Procs :
    /\ NoDeclaration /\ Done(p) /\ exitCode[p] = 0
    /\ WorktreeAdded(p) /\ worktreeName[p] \in DOMAIN worktrees

\* Characters, as opposed to bytes: a byte that continues a UTF-8 sequence
\* starts no character.
ContinuationBytes == {ByteA9}
CharCount(s) == Cardinality({i \in 1..Len(s) : s[i] \notin ContinuationBytes})

\* the first n characters of s
FirstChars(s, n) ==
  LET ks == {k \in 0..Len(s) : CharCount(SubSeq(s, 1, k)) <= n}
  IN  SubSeq(s, 1, CHOOSE k \in ks : \A j \in ks : j <= k)

\* the arguments of p that are no --base flag and no --base value
Positional(p) == parseFlags(args[p], <<>>, <<>>).positional

\* C7 as stated: for every successful `new <name>` run with no explicit
\* identifier, a found original environment name O, and <name> not main or
\* master: the worktree is at <root>/spaces/<name>, it is on a branch named
\* <name>, and the environment name in its declaration, which is the name the
\* environment is started under, is <first 4 characters of name>-O.
C7_EndToEndNaming ==
  \A p \in Procs :
    (/\ Done(p) /\ exitCode[p] = 0
     /\ Len(Positional(p)) = 1
     /\ hasDDEV[p]
     /\ worktreeName[p] \notin {nMain, nMaster})
      => LET name     == Positional(p)[1]
             expected == FirstChars(name, 4) \o <<"-">> \o originalName[p]
         IN  /\ name \in DOMAIN worktrees
             /\ worktrees[name] = name
             /\ EnvNameOf(name) = [err |-> FALSE, name |-> expected]
             /\ expected \in DOMAIN envs
             /\ envs[expected] = name

\* C8 as stated: with no explicit identifier argument the identifier is the
\* full workspace name if its length is < 4 and exactly its first 4
\* characters if its length is >= 4; with an explicit identifier argument it
\* is that argument.
C8_IdentifierDerivation ==
  \A p \in Procs :
    (pc[p] \notin {"idle", "cmdNewFromArgs", "done"})
      => LET pos == Positional(p)
         IN  /\ worktreeName[p] = pos[1]
             /\ Len(pos) = 2 => identifier[p] = pos[2]
             /\ Len(pos) = 1 =>
                  identifier[p] = IF CharCount(pos[1]) < 4 THEN pos[1]
                                  ELSE FirstChars(pos[1], 4)

(***************************************************************************)
(* Properties of `remove`                                                  *)
(***************************************************************************)
DestructiveCommands ==
  {"ddev delete --omit-snapshot -y", "git worktree remove --force",
   "git branch -D", "docker builder prune -f"}

NoDestruction(p) == \A c \in DestructiveCommands : ~Invoked(p, c)

\* what was typed at the prompt, up to the line terminator if there is one
TypedLine(typed) ==
  IF \E i \in 1..Len(typed) : typed[i] = "\n"
  THEN SubSeq(typed, 1, (CHOOSE i \in 1..Len(typed) :
                           typed[i] = "\n" /\ \A j \in 1..(i - 1) : typed[j] # "\n") - 1)
  ELSE typed

Terminated(typed) == \E i \in 1..Len(typed) : typed[i] = "\n"

SetupSteps ==
  {"git clone --bare", "os.WriteFile .git", "git config remote.origin.fetch",
   "git fetch origin", "detectDefaultBranch", "os.MkdirAll spaces", "os.MkdirAll db",
   "git worktree add"}

\* the data import of p failed: the command, the reading of the path, or
\* the file that was named
InitImportFailed(p) ==
  \E i \in 1..Len(steps[p]) :
    steps[p][i].Description = "Database" /\ steps[p][i].Detail = "Failed"

NamesProjectDir(p) ==
  /\ Len(args[p]) \in {1, 2}
  /\ Len(args[p]) = 2 => args[p][2] # <<>>
  /\ Len(args[p]) = 1 => args[p][1] \notin {<<>>, <<".", "g", "i", "t">>}

\* C6: when init is invoked and the project directory already exists, it
\* exits non-zero without cloning and without creating, modifying or
\* removing anything in that directory; so the directory that init's cleanup
\* removes is always one that did not exist when the invocation started.
C6_ExistingDirectoryUntouched ==
  \A p \in Procs :
    /\ (projectDir0.exists /\ pc[p] \notin {"idle", "cmdInit"})
         => /\ Done(p) /\ exitCode[p] # 0
            /\ calls[p] = <<>>
            /\ projectDir = projectDir0
    /\ Invoked(p, "os.RemoveAll") => ~projectDir0.exists

\* C6 witness: init named a directory that existed with something in it,
\* and has ended.
C6_Witness ==
  \E p \in Procs :
    /\ NamesProjectDir(p) /\ Done(p) /\ exitCode[p] = 1
    /\ projectDir0.exists /\ projectDir0.entries # {}
    /\ projectDir = projectDir0

(***************************************************************************)
(* Properties of the registry                                              *)
(***************************************************************************)
\* <root>/spaces/, written out
SpacesPrefix == <<"/", "r", "/", "s", "p", "a", "c", "e", "s", "/">>

\* the record is not bare and its path is under <root>/spaces/
Qualifies(r) ==
  /\ ~r.bare
  /\ Len(r.path) >= Len(SpacesPrefix)
  /\ SubSeq(r.path, 1, Len(SpacesPrefix)) = SpacesPrefix

\* the branch reference with `refs/heads/` stripped
ShortRef(ref) ==
  IF Len(ref) >= 11 /\ SubSeq(ref, 1, 11) = <<"r", "e", "f", "s", "/", "h", "e", "a", "d", "s", "/">>
  THEN SubSeq(ref, 12, Len(ref)) ELSE ref

\* the entry a qualifying record is to produce
EntryOf(r) ==
  [name |-> SubSeq(r.path, Len(SpacesPrefix) + 1, Len(r.path)),
   branch |-> ShortRef(r.ref), path |-> r.path]

Listed == regPhase = "listed"

\* C11: for every listing, a record carrying the `bare` marker never
\* produces an entry, and each non-bare record whose path is under
\* <root>/spaces/ produces an entry whose name is the path after that prefix
\* and whose branch is the branch reference with `refs/heads/` stripped
\* (empty when the record has no branch line).
C11_RegistryEntries ==
  Listed =>
    /\ \A i \in 1..Len(regWorkspaces) :
         \E j \in 1..Len(regRecords) :
           Qualifies(regRecords[j]) /\ regWorkspaces[i] = EntryOf(regRecords[j])
    /\ \A j \in 1..Len(regRecords) :
         Qualifies(regRecords[j])
           => \E i \in 1..Len(regWorkspaces) : regWorkspaces[i] = EntryOf(regRecords[j])

\* C11 witness: a listing of the bare repository and a workspace has been
\* read; its one entry is the workspace.
C11_Witness ==
  /\ Listed /\ Len(regRecords) = 2
  /\ regRecords[1].bare /\ Qualifies(regRecords[2]) /\ regRecords[2].ref # <<>>
  /\ regWorkspaces = <<EntryOf(regRecords[2])>>

\* C12: each qualifying record yields exactly one entry, in the order of
\* the listing, whether or not the listing ends with a blank line: the final
\* record is still emitted when the blank line (or the last newline) is
\* missing, and is not emitted twice when it is present.
C12_OneEntryPerRecord ==
  Listed =>
    LET qualifying == SelectSeq(regRecords, Qualifies)
    IN  /\ Len(regWorkspaces) = Len(qualifying)
        /\ \A i \in 1..Len(qualifying) : regWorkspaces[i].path = qualifying[i].path

\* C12 witness: a listing that stops before its last newline has been read,
\* and its final record is the last entry.
C12_Witness ==
  /\ Listed /\ regEnd = "none" /\ Len(regRecords) = 2
  /\ Qualifies(regRecords[1]) /\ Qualifies(regRecords[2])
  /\ Len(regWorkspaces) = 2
  /\ regWorkspaces[2].path = regRecords[2].path

\* C16 as stated: for every listing and every target path that equals the
\* path of a non-bare record of the listing, with a branch line or detached,
\* validation succeeds; for a target path that matches no record,
\* validation fails.
C16_ValidationAcceptsKnownWorkspaces ==
  regPhase = "validated" =>
    /\ (\E j \in 1..Len(regRecords) :
          ~regRecords[j].bare /\ regRecords[j].path = regTarget) => ~regValid.err
    /\ (\A j \in 1..Len(regRecords) : regRecords[j].path # regTarget) => regValid.err

(***************************************************************************)
(* Properties of the command line                                          *)
(***************************************************************************)
\* process p ran `new` to its summary for a project with a declaration
NewSucceeded(p) ==
  /\ pc[p] = "done" /\ exitCode[p] = 0
  /\ Printed(p, SummaryBanner)
  /\ hasDDEV[p]

\* C13 as stated: for any two workspaces created by successful `new` runs
\* under the same project root, with distinct workspace names neither of
\* which is a default-branch name, the environment names written to their
\* declarations are distinct.
C13_EnvironmentNamesUnique ==
  \A p, o \in Procs :
    ( /\ p # o
      /\ NewSucceeded(p) /\ NewSucceeded(o)
      /\ worktreeName[p] # worktreeName[o]
      /\ ~isDefaultBranch(worktreeName[p]) /\ ~isDefaultBranch(worktreeName[o])
      /\ worktreeName[p] \in DOMAIN worktrees /\ worktreeName[o] \in DOMAIN worktrees )
    => EnvNameOf(worktreeName[p]) # EnvNameOf(worktreeName[o])

\* main leaves its switch in this step of process p
Dispatches(p) == pc[p] = "main" /\ pc'[p] # "main"

\* process p prints the usage text and exits with the given status, having
\* entered no workflow and invoked no command
UsageExit(p, nonZero) ==
  /\ pc'[p] = "done"
  /\ (exitCode'[p] # 0) = nonZero
  /\ stderr'[p] # <<>> /\ stderr'[p][Len(stderr'[p])] = Usage
  /\ calls'[p] = <<>> /\ steps'[p] = <<>> /\ stdout'[p] = <<>> /\ listed'[p] = <<>>
  /\ UNCHANGED <<worldVars, initVars>>

\* the dispatch rule, for a given set of subcommand words
DispatchRule(p, known) ==
  Dispatches(p) =>
    /\ (Len(args[p]) = 0 \/ args[p][1] \notin known \cup {cHelp, cH}) => UsageExit(p, TRUE)
    /\ (Len(args[p]) > 0 /\ args[p][1] \in {cHelp, cH}) => UsageExit(p, FALSE)

\* C14 as stated: a missing subcommand or any first argument other than
\* `init`, `new`, `remove`, `list` (or the help flags) prints usage and
\* exits non-zero without starting any workflow or invoking any external
\* command; `--help` or `-h` prints usage and exits zero.
C14_Dispatch_AsStated ==
  [][\A p \in Procs : DispatchRule(p, {cInit, cNew, cRemove, cList})]_vars

\* C14: a missing subcommand or any first argument other than `init`,
\* `new`, `remove`, `list`, `ls` (or the help flags) prints usage and exits
\* non-zero without starting any workflow or invoking any external command;
\* `--help` or `-h` prints usage and exits zero; `ls` runs the list workflow.
C14_Dispatch ==
  [][\A p \in Procs :
       /\ DispatchRule(p, {cInit, cNew, cRemove, cList, cLs})
       /\ (Dispatches(p) /\ Len(args[p]) > 0 /\ args[p][1] = cLs) => pc'[p] = "cmdList"]_vars

\* C14 witness: an unknown command has been answered with the usage text
\* and a non-zero status, and nothing was run.
C14_Witness ==
  /\ pc[1] = "done" /\ exitCode[1] = 1
  /\ args[1] = <<nBogus>>
  /\ stderr[1] = <<UnknownCommand, Usage>>
  /\ calls[1] = <<>>

(***************************************************************************)
(* Properties of new: the start point of the branch                        *)
(***************************************************************************)
\* the command line of process p has a --base flag
BaseGiven(p) ==
  \E i \in 1..Len(args[p]) : args[p][i] = FlagBase \/ HasPrefix(args[p][i], FlagBaseEq)

\* the start points given to the `git worktree add -b` commands of process p
\* (the empty name: none given, the branch starts from the current HEAD)
StartPoints(p) ==
  {calls[p][i].name : i \in {j \in 1..Len(calls[p]) : calls[p][j].cmd = "git worktree add -b"}}

RemovalBanner == "=== Workspace Removal Complete ==="

\* the steps of process p hold an entry with this description and detail
StepDetail(p, description, detail) ==
  \E i \in 1..Len(steps[p]) :
    steps[p][i].Description = description /\ steps[p][i].Detail = detail

\* in process p, command later was invoked after a failure of command cmd
AttemptedAfterFailure(p, cmd, later) ==
  \A i \in CallsOf(p, cmd) :
    ~calls[p][i].ok => \E j \in CallsOf(p, later) : j > i

\* C17: in a confirmed `remove` run that has ended, worktree removal was
\* attempted even if environment teardown failed, and cache prune was
\* attempted even if branch deletion failed; each failure of teardown,
\* branch deletion or prune is recorded as a step entry; and when worktree
\* removal (the one essential step) succeeded, the run ended with the
\* summary and a zero exit status whatever the other steps returned.
C17_RemoveKeepsGoing ==
  \A p \in Procs :
    Done(p) =>
      /\ AttemptedAfterFailure(p, "ddev delete --omit-snapshot -y", "git worktree remove --force")
      /\ AttemptedAfterFailure(p, "git branch -D", "docker builder prune -f")
      /\ Failed(p, "ddev delete --omit-snapshot -y")
           => StepDetail(p, "DDEV project", "Failed to delete")
      /\ Failed(p, "git branch -D") => StepDetail(p, "Branch", "Failed to delete ")
      /\ Failed(p, "docker builder prune -f")
           => StepDetail(p, "Docker build cache", "Failed to prune")
      /\ Succeeded(p, "git worktree remove --force")
           => /\ exitCode[p] = 0
              /\ Printed(p, RemovalBanner)
              /\ Invoked(p, "git branch -D") /\ Invoked(p, "docker builder prune -f")
              /\ Len(steps[p]) = 4

\* C17 witness: teardown, branch deletion and prune have all failed, the
\* worktree was removed, and the run ended with the summary and status 0.
C17_Witness ==
  /\ Done(1) /\ exitCode[1] = 0
  /\ Failed(1, "ddev delete --omit-snapshot -y")
  /\ Succeeded(1, "git worktree remove --force")
  /\ Failed(1, "git branch -D")
  /\ Failed(1, "docker builder prune -f")
  /\ Printed(1, RemovalBanner)

(***************************************************************************)
(* Properties of new: rollback                                             *)
(***************************************************************************)
\* process p is inside cleanup(state)
InRollback(p) == pc[p] \in {"cleanup", "cleanupWorktree"}

\* C18: rollback in `new` is best-effort and never changes the outcome: a
\* process inside the rollback has not reported success and leaves it only
\* by exiting with a non-zero status, whatever the rollback commands
\* returned; and if the deletion of the environment failed, the removal of
\* the worktree was still attempted after it.
C18_RollbackBestEffort ==
  /\ [](\A p \in Procs :
          /\ InRollback(p) => exitCode[p] = Running /\ ~Printed(p, SummaryBanner)
          /\ Done(p) => AttemptedAfterFailure(p, "ddev delete -O --omit-snapshot",
                                              "git worktree remove --force"))
  /\ [][\A p \in Procs :
          (InRollback(p) /\ pc'[p] \notin {"cleanup", "cleanupWorktree"})
            => /\ pc'[p] = "done"
               /\ exitCode'[p] \notin {0, Running}
               /\ stdout'[p] = stdout[p]]_vars

\* C18 witness: the deletion of the environment failed during the rollback,
\* the removal of the worktree was attempted and failed too, and the process
\* exited with status 1 without a summary.
C18_Witness ==
  /\ Done(1) /\ exitCode[1] = 1
  /\ Failed(1, "ddev delete -O --omit-snapshot")
  /\ Failed(1, "git worktree remove --force")
  /\ ~Printed(1, SummaryBanner)

(***************************************************************************)
(* Properties of new: the cleanupState                                     *)
(***************************************************************************)
\* C19: in every reachable state of a `new` run, worktreeCreated is true
\* only if the worktree-creation command has already returned success in
\* this run, and ddevStarted is true only if the environment-start command
\* has already returned success in this run; once set, a flag is never
\* reset.
C19_FlagsNeverOptimistic ==
  /\ [](\A p \in Procs :
          /\ state[p].worktreeCreated => WorktreeAdded(p)
          /\ state[p].ddevStarted => Succeeded(p, "ddev start"))
  /\ [][\A p \in Procs :
          /\ state[p].worktreeCreated => state'[p].worktreeCreated
          /\ state[p].ddevStarted => state'[p].ddevStarted]_vars

\* C19 witness: both flags are set, after both commands succeeded, and the
\* rollback that reads them has begun.
C19_Witness ==
  /\ state[1].worktreeCreated /\ state[1].ddevStarted
  /\ WorktreeAdded(1) /\ Succeeded(1, "ddev start")
  /\ InRollback(1)

(***************************************************************************)
(* Properties of the ConfigMutator: whole lines                            *)
(***************************************************************************)
\* C20 as stated: rename succeeds only if the file contains a whole line
\* that is exactly `name: <original>`; for a file in which that text occurs
\* only as part of a longer line, rename fails and leaves the file
\* unmodified; on success only the first occurrence is replaced and all
\* other bytes of the file are unchanged.
C20_RenameNeedsWholeLine ==
  rnCount >= 1 =>
    LET old  == OriginalText(rnOrig)
        i    == Index(rnBefore, old)
        head == SubSeq(rnBefore, 1, i - 1)
        rest == SubSeq(rnBefore, i + Len(old), Len(rnBefore))
    IN  /\ ~rnErr => /\ HasLine(rnBefore, old)
                     /\ rnFile = head \o RenamedText(rnIdent, rnOrig) \o rest
        /\ (rnBefore # NoFile /\ Contains(rnBefore, old) /\ ~HasLine(rnBefore, old))
             => (rnErr /\ rnFile = rnBefore)

(***************************************************************************)
(* Properties of the ConfigMutator: repetition                             *)
(***************************************************************************)
\* C21 as stated: for every declaration file and every identifier, applying
\* rename a second time with the same identifier and originalName
\* immediately after a successful rename fails with an error and leaves the
\* file unchanged, so the name is never prefixed twice.
C21_RenameNotRepeatable ==
  [][(rnCount = 1 /\ ~rnErr /\ rnCount' = 2) => (rnErr' /\ rnFile' = rnFile)]_vars

(***************************************************************************)
(* Properties of the dependent-settings rewrite                            *)
(***************************************************************************)
\* the file with its first comment block (and the white space after it)
\* removed
WithoutComment(file) ==
  LET loc == commentRe(file)
  IN  IF loc.start = 0 THEN file
      ELSE SubSeq(file, 1, loc.start - 1) \o SubSeq(file, loc.end, Len(file))

\* s with every database-host assignment replaced by the given text, as it
\* is written
RECURSIVE WithHost(_, _)
WithHost(s, text) ==
  LET hits == {i \in 1..Len(s) : hostReAt(s, i) # 0}
  IN  IF hits = {} THEN s
      ELSE LET i == CHOOSE k \in hits : \A m \in hits : k <= m
           IN  SubSeq(s, 1, i - 1) \o text
                 \o WithHost(SubSeq(s, hostReAt(s, i), Len(s)), text)

\* `$host = "ddev-<name>-db"`, written out
HostAssignment(name) ==
  <<"$", "h", "o", "s", "t", " ", "=", " ", "\"">> \o <<"d", "d", "e", "v", "-">>
    \o name \o <<"-", "d", "b", "\"">>

\* the rewrite fails, and leaves the file as it was, when no assignment is
\* found once the first comment block is removed
SettingsFailClosed ==
  (stCount = 1 /\ stBefore # NoFile /\ ~hostReMatches(WithoutComment(stBefore)))
    => (stErr /\ stFile = stBefore)

\* C22 as stated: when the settings file, after removal of its first
\* comment block, contains no database-host assignment, the operation
\* returns an error and the file is left unmodified, including the comment
\* block; on success, the only changes to the file are removal of the first
\* comment block and replacement of host assignments by
\* `$host = "ddev-<newEnvironmentName>-db"`.
C22_SettingsRewrite ==
  /\ SettingsFailClosed
  /\ (stCount = 1 /\ ~stErr)
       => stFile = WithHost(WithoutComment(stBefore), HostAssignment(stName))

(***************************************************************************)
(* Properties of new: name agreement                                       *)
(***************************************************************************)
\* process p, creating a non-default workspace, is about to start the
\* environment
AtEnvironmentStart(p) == pc[p] = "ddevStart" /\ ~isDefaultBranch(worktreeName[p])

\* <identifier>-<original> of process p, written out
ComposedName(p) == identifier[p] \o <<"-">> \o originalName[p]

\* the declaration of the new worktree holds the composed name
DeclarationAgrees(p) ==
  /\ ~EnvNameOf(worktreeName[p]).err
  /\ EnvNameOf(worktreeName[p]).name = ComposedName(p)

\* the settings file of the new worktree, if there is one, references
\* `ddev-<identifier>-<original>-db`
SettingsAgree(p) ==
  SettingsOf(worktreeName[p]) # NoFile
    => Contains(SettingsOf(worktreeName[p]),
                <<"\"", "d", "d", "e", "v", "-">> \o ComposedName(p) \o <<"-", "d", "b", "\"">>)

\* C23 as stated: in every `new` run for a non-default workspace that
\* reaches the environment-start step, the declaration in the new worktree
\* holds the composed name <identifier>-<original>, and if the dependent
\* settings file exists in that worktree its database-host assignment
\* references the same composed name; the environment is never started with
\* the declaration renamed but the existing settings file not rewritten.
C23_NameAgreement ==
  \A p \in Procs :
    AtEnvironmentStart(p) => (DeclarationAgrees(p) /\ SettingsAgree(p))

(***************************************************************************)
(* Properties of the registry: order                                       *)
(***************************************************************************)
\* the entries of the qualifying records of the listing, in its order
RECURSIVE EntriesInOrder(_)
EntriesInOrder(records) ==
  IF records = <<>> THEN <<>>
  ELSE (IF Qualifies(Head(records)) THEN <<EntryOf(Head(records))>> ELSE <<>>)
         \o EntriesInOrder(Tail(records))

\* C24: the entries produced by registry parsing in `list` appear in the
\* same relative order as their records appear in the listing; parsing never
\* reorders entries.
C24_EntriesInListingOrder == Listed => regWorkspaces = EntriesInOrder(regRecords)

\* C24 witness: two different workspaces have been read, and the one listed
\* first is the first entry.
C24_Witness ==
  /\ Listed /\ Len(regRecords) = 2
  /\ Qualifies(regRecords[1]) /\ Qualifies(regRecords[2])
  /\ regRecords[1].path # regRecords[2].path
  /\ regWorkspaces = <<EntryOf(regRecords[1]), EntryOf(regRecords[2])>>

(***************************************************************************)
(* Properties of new: base-reference resolution                            *)
(***************************************************************************)
\* the value of the --base flag on the command line of process p (the empty
\* name when there is none)
GivenBase(p) ==
  LET a == args[p]
      flags == {i \in 1..Len(a) : a[i] = FlagBase /\ i < Len(a)}
      eqs   == {i \in 1..Len(a) : HasPrefix(a[i], FlagBaseEq)}
  IN  IF flags # {} THEN a[(CHOOSE i \in flags : TRUE) + 1]
      ELSE IF eqs # {}
           THEN LET e == a[CHOOSE i \in eqs : TRUE]
                IN  SubSeq(e, Len(FlagBaseEq) + 1, Len(e))
      ELSE <<>>

\* the base reference the rule resolves for process p
ResolvedBase(p) ==
  IF GivenBase(p) # <<>> THEN GivenBase(p)
  ELSE IF originDevelop THEN <<"o", "r", "i", "g", "i", "n", "/">> \o nDevelop
  ELSE <<>>

\* process p runs its worktree-creation command in this step
CreatesWorktree(p) == pc[p] = "worktreeAdd" /\ Len(calls'[p]) = Len(calls[p]) + 1

ForDefaultBranch(p) == worktreeName[p] \in {nMain, nMaster}

\* C26: for the workspace names `main` and `master`, `new` never modifies
\* the environment declaration or the dependent settings file of the
\* workspace, whatever identifier was derived or supplied; the environment
\* start is still performed, recorded under the original name, and is
\* followed by the data import.
C26_DefaultBranchKeepsName ==
  /\ [](\A p \in Procs :
          ForDefaultBranch(p) =>
            /\ ~Invoked(p, "renameDDEVProject") /\ ~Invoked(p, "updateSettingsDdevPHP")
            /\ (Done(p) /\ hasDDEV[p] /\ WorktreeAdded(p)) => Invoked(p, "ddev start")
            /\ (Done(p) /\ Succeeded(p, "ddev start"))
                 => /\ \E i \in 1..Len(steps[p]) :
                         /\ steps[p][i].Description = "Started DDEV"
                         /\ steps[p][i].Value = originalName[p]
                    /\ Invoked(p, "ddev import-db") \/ Invoked(p, "prompt"))
  /\ [][\A p \in Procs :
          (/\ ForDefaultBranch(p)
           /\ worktreeName[p] \in DOMAIN decl
           /\ worktreeName[p] \in DOMAIN decl')
            => /\ decl'[worktreeName[p]] = decl[worktreeName[p]]
               /\ settings'[worktreeName[p]] = settings[worktreeName[p]]]_vars

\* C26 witness: `new master x` has ended with the summary; the declaration
\* of the new workspace still holds the original name, under which the
\* environment was started and the dump imported.
C26_Witness ==
  /\ Done(1) /\ exitCode[1] = 0
  /\ worktreeName[1] = nMaster /\ identifier[1] = <<"x">>
  /\ DeclOf(nMaster) = <<"n", "a", "m", "e", ":", " ">> \o originalName[1] \o <<NL>>
  /\ Succeeded(1, "ddev start") /\ Succeeded(1, "ddev import-db")
  /\ ~Invoked(1, "renameDDEVProject")

(***************************************************************************)
(* Properties of new: preconditions                                        *)
(***************************************************************************)
\* the positions of the positional arguments on the command line of p
PositionalAt(p) ==
  {i \in 1..Len(args[p]) :
     /\ args[p][i] # FlagBase
     /\ ~HasPrefix(args[p][i], FlagBaseEq)
     /\ (i = 1 \/ args[p][i - 1] # FlagBase)}

\* a wrong number of positional arguments, an empty workspace name, or
\* --base without a value
BadArguments(p) ==
  \/ Cardinality(PositionalAt(p)) \notin {1, 2}
  \/ \E i \in PositionalAt(p) : (\A j \in PositionalAt(p) : i <= j) /\ args[p][i] = <<>>
  \/ Len(args[p]) > 0 /\ args[p][Len(args[p])] = FlagBase

\* the supplied base reference does not exist
BadBase(p) == GivenBase(p) # <<>> /\ ~Resolves(GivenBase(p))

\* the commands with a side effect, and those of the rollback
SideEffects ==
  {"git worktree add", "git worktree add -b", "renameDDEVProject",
   "updateSettingsDdevPHP", "ddev start", "ddev import-db",
   "ddev delete -O --omit-snapshot", "git worktree remove --force"}

NoSideEffect(p) == \A i \in 1..Len(calls[p]) : calls[p][i].cmd \notin SideEffects

\* the positions of cmdNewFromArgs and cmdNew before the worktree is created
Preconditions == {"cmdNewFromArgs", "findProjectRoot", "resolveBase"}

\* C27: a wrong number of positional arguments, an empty workspace name,
\* `--base` without a value, an unresolvable project root, or a supplied
\* base reference that does not exist each cause a non-zero exit with no
\* worktree-creation command, no config mutation, no environment command
\* and no rollback having been invoked, and nothing of the project changed.
C27_PreconditionsFatal ==
  /\ [](\A p \in {o \in Procs : pc[o] # "idle"} :
          /\ BadArguments(p) => pc[p] \in {"cmdNewFromArgs", "done"}
          /\ BadBase(p) => pc[p] \in Preconditions \cup {"done"}
          /\ (Done(p) /\ (BadArguments(p) \/ BadBase(p)))
               => (exitCode[p] = 1 /\ NoSideEffect(p))
          /\ pc[p] \in Preconditions => NoSideEffect(p))
  /\ [][\A p \in Procs :
          (pc[p] \in Preconditions /\ pc'[p] = "done")
            => /\ exitCode'[p] = 1
               /\ \A i \in 1..Len(calls'[p]) : calls'[p][i].cmd \notin SideEffects
               /\ UNCHANGED worldVars]_vars

\* C27 witness: the base reference given with --base does not exist; the
\* process has exited with status 1 after the one check of that reference.
C27_Witness ==
  /\ Done(1) /\ exitCode[1] = 1
  /\ GivenBase(1) = nNope /\ ~Resolves(nNope)
  /\ Len(calls[1]) = 1 /\ calls[1][1].cmd = "git rev-parse --verify" /\ ~calls[1][1].ok
  /\ worktreeName[1] \notin DOMAIN worktrees

(***************************************************************************)
(* Properties of remove: the order of the steps                            *)
(***************************************************************************)
\* in process p every invocation of command first precedes every invocation
\* of command second
Precedes(p, first, second) ==
  \A i \in CallsOf(p, first), j \in CallsOf(p, second) : i < j

\* C28: in a confirmed `remove` run, environment teardown (or its skip)
\* precedes worktree removal, which precedes branch deletion, which precedes
\* build-cache prune; a failure of worktree removal is fatal: the process
\* exits non-zero and neither branch deletion nor cache prune is invoked
\* after it.
C28_RemoveStepOrder ==
  \A p \in Procs :
    /\ Precedes(p, "ddev delete --omit-snapshot -y", "git worktree remove --force")
    /\ Precedes(p, "git worktree remove --force", "git branch -D")
    /\ Precedes(p, "git branch -D", "docker builder prune -f")
    /\ Invoked(p, "git worktree remove --force")
         => (Len(steps[p]) >= 1 /\ steps[p][1].Description = "DDEV project")
    /\ Invoked(p, "docker builder prune -f") => Invoked(p, "git branch -D")
    /\ Invoked(p, "git branch -D") => Succeeded(p, "git worktree remove --force")
    /\ Failed(p, "git worktree remove --force")
         => /\ Done(p) /\ exitCode[p] = 1
            /\ ~Invoked(p, "git branch -D") /\ ~Invoked(p, "docker builder prune -f")

\* C28 witness: after a teardown, the worktree removal has failed and the
\* process has exited with status 1 without going on to the branch.
C28_Witness ==
  /\ Succeeded(1, "ddev delete --omit-snapshot -y")
  /\ Failed(1, "git worktree remove --force")
  /\ Done(1) /\ exitCode[1] = 1
  /\ ~Invoked(1, "git branch -D")

(***************************************************************************)
(* Properties of remove: the summary                                       *)
(***************************************************************************)
\* process p has passed the confirmation
Confirmed(p) == pc[p] = "deleteDDEV"

\* process p has emitted the summary with one entry per step, in the order
\* of execution
SummaryEmitted(p) ==
  /\ Printed(p, RemovalBanner)
  /\ Len(steps[p]) = 4
  /\ steps[p][1].Description = "DDEV project"
  /\ steps[p][2].Description = "Git worktree"
  /\ steps[p][3].Description = "Branch"
  /\ steps[p][4].Description = "Docker build cache"

\* C29 as stated: every `remove` run that passes confirmation eventually
\* emits the ordered summary, containing one entry per step executed
\* (environment, worktree, branch, build cache) in execution order.
C29_SummaryAlways_AsStated == \A p \in Procs : Confirmed(p) ~> SummaryEmitted(p)

\* C29: every `remove` run that passes confirmation eventually ends; if the
\* worktree removal succeeded it has emitted the ordered summary, with one
\* entry per step (environment, worktree, branch, build cache) in execution
\* order, entries of failed steps included, and exits with status 0; if the
\* worktree removal failed it exits with status 1 and emits no summary.
C29_SummaryUnlessRemovalFails ==
  \A p \in Procs :
    Confirmed(p) ~>
      /\ Done(p)
      /\ Invoked(p, "git worktree remove --force")
      /\ Succeeded(p, "git worktree remove --force")
           => (SummaryEmitted(p) /\ exitCode[p] = 0)
      /\ Failed(p, "git worktree remove --force")
           => (~Printed(p, RemovalBanner) /\ exitCode[p] = 1)

\* C29 witness: a run in which the teardown and the prune failed has ended
\* with the summary of its four steps.
C29_Witness ==
  /\ Done(1) /\ SummaryEmitted(1)
  /\ Failed(1, "ddev delete --omit-snapshot -y")
  /\ Failed(1, "docker builder prune -f")
  /\ steps[1][1].Detail = "Failed to delete"
  /\ steps[1][4].Detail = "Failed to prune"

(***************************************************************************)
(* C30: the data-import decision of `new`                                  *)
(***************************************************************************)
\* p has been through step 5 of `new`
PastImportStep(p) == HasStep(p, "Started DDEV") /\ pc[p] # "handleDBImport"

\* what p typed at the prompt of handleDBImport
Answer(p) == calls[p][CHOOSE i \in CallsOf(p, "prompt") : TRUE].name

\* the characters of a typed line that are not white space (no answer
\* considered has a blank inside the path)
Typed(a) == SelectSeq(a, LAMBDA c : c \notin {" ", NL})

\* p pressed Enter on an empty line
EmptyAnswer(p) ==
  /\ Invoked(p, "prompt")
  /\ Answer(p) # <<>> /\ Answer(p)[Len(Answer(p))] = NL
  /\ Typed(Answer(p)) = <<>>

\* p answered with the path of a file that does not exist
MissingFileAnswer(p) ==
  /\ Invoked(p, "prompt")
  /\ Answer(p) # <<>> /\ Answer(p)[Len(Answer(p))] = NL
  /\ Typed(Answer(p)) # <<>> /\ Typed(Answer(p)) \notin ExistingFiles

\* the environment of p's workspace is registered as running for it
EnvironmentRunning(p) ==
  /\ ~EnvNameOf(worktreeName[p]).err
  /\ EnvNameOf(worktreeName[p]).name \in DOMAIN envs
  /\ envs[EnvNameOf(worktreeName[p]).name] = worktreeName[p]

RolledBack(p) ==
  /\ Invoked(p, "ddev delete -O --omit-snapshot")
  /\ Invoked(p, "git worktree remove --force")
  /\ Precedes(p, "ddev delete -O --omit-snapshot", "git worktree remove --force")

\* C30: in `new`, a snapshot at <root>/db/db.sql.gz is imported without a
\* prompt; without it the user is prompted; an empty answer is a skip after
\* which the run ends with status 0, the summary, the environment running
\* and no rollback; an answer naming a file that does not exist starts the
\* rollback (environment deletion, then worktree removal), the run ends
\* with status 1, and no import command is ever invoked.
C30_ImportDecision ==
  \A p \in Procs :
    /\ (PastImportStep(p) /\ dbDump) =>
         /\ ~Invoked(p, "prompt")
         /\ Invoked(p, "ddev import-db")
         /\ \A i \in CallsOf(p, "ddev import-db") : calls[p][i].path = DumpPath
    /\ (PastImportStep(p) /\ ~dbDump) => Invoked(p, "prompt")
    /\ EmptyAnswer(p) =>
         /\ Done(p) /\ exitCode[p] = 0 /\ Printed(p, SummaryBanner)
         /\ StepDetail(p, "Database", "Skipped (no import)")
         /\ ~Invoked(p, "ddev import-db")
         /\ ~Invoked(p, "ddev delete -O --omit-snapshot")
         /\ ~Invoked(p, "git worktree remove --force")
         /\ EnvironmentRunning(p)
    /\ MissingFileAnswer(p) =>
         /\ ~Invoked(p, "ddev import-db")
         /\ ~Printed(p, SummaryBanner)
         /\ pc[p] \in {"cleanup", "cleanupWorktree", "done"}
         /\ Done(p) => (exitCode[p] = 1 /\ RolledBack(p))

\* a run that answered with a missing file has rolled back and ended
C30_Witness ==
  /\ Done(1) /\ MissingFileAnswer(1) /\ RolledBack(1)
  /\ exitCode[1] = 1 /\ ~Invoked(1, "ddev import-db")

(***************************************************************************)
(* C31: `new` stops at the first step that fails                           *)
(***************************************************************************)
ForwardCmds ==
  {"git rev-parse --verify", "git worktree add", "git worktree add -b",
   "renameDDEVProject", "updateSettingsDdevPHP", "ddev start", "prompt", "ddev import-db"}
RollbackCmds == {"ddev delete -O --omit-snapshot", "git worktree remove --force"}
StepCmds == ForwardCmds \ {"git rev-parse --verify"}

\* the i-th call of p is a step of `new` that failed: the command returned
\* an error, or the answer to the prompt names no file
StepFailedAt(p, i) ==
  /\ calls[p][i].cmd \in StepCmds
  /\ \/ ~calls[p][i].ok
     \/ calls[p][i].cmd = "prompt" /\ MissingFileAnswer(p)

StepFailed(p) == \E i \in 1..Len(calls[p]) : StepFailedAt(p, i)

RollingBack(p) == pc[p] \in {"cleanup", "cleanupWorktree"}

FailStopState(p) ==
  /\ StepFailed(p) =>
       /\ \A i, j \in 1..Len(calls[p]) :
            (StepFailedAt(p, i) /\ i < j) => calls[p][j].cmd \in RollbackCmds
       /\ ~Printed(p, SummaryBanner)
       /\ RollingBack(p) \/ (Done(p) /\ exitCode[p] = 1)
  /\ Printed(p, SummaryBanner) => (~StepFailed(p) /\ Done(p) /\ exitCode[p] = 0)

\* what a process that is rolling back does in one step
FailStopStep(p) ==
  RollingBack(p) =>
    /\ RollingBack(p)' \/ (Done(p)' /\ exitCode'[p] = 1)
    /\ stdout'[p] = stdout[p] /\ steps'[p] = steps[p]
    /\ Len(calls'[p]) >= Len(calls[p])
    /\ \A i \in 1..Len(calls'[p]) :
         IF i <= Len(calls[p]) THEN calls'[p][i] = calls[p][i]
         ELSE calls'[p][i].cmd \in RollbackCmds

\* C31: once worktree creation, rename, settings rewrite, environment start
\* or data import has failed in `new`, only rollback commands are invoked,
\* the summary is not printed and the exit status is 1; the summary is
\* printed only by runs in which no step failed.
C31_FailStop ==
  /\ [](\A p \in Procs : FailStopState(p))
  /\ [][\A p \in Procs : FailStopStep(p)]_vars

\* a run whose environment did not start, after the rename succeeded, has
\* removed its worktree and ended
C31_Witness ==
  /\ Done(1) /\ exitCode[1] = 1 /\ Failed(1, "ddev start")
  /\ Succeeded(1, "renameDDEVProject")
  /\ Invoked(1, "git worktree remove --force")
  /\ ~Invoked(1, "ddev delete -O --omit-snapshot")

(***************************************************************************)
(* C32: the bare repository is no removal target                           *)
(***************************************************************************)
\* the target is the path of a record of the listing that is marked bare
BareTarget ==
  \E i \in 1..Len(regRecords) : regRecords[i].bare /\ regRecords[i].path = regTarget

\* C32: validateWorktree returns an error for a target that is the path of
\* a record marked `bare`, whatever the listing holds besides.
C32_BareNeverValid ==
  (regPhase = "validated" /\ BareTarget) => regValid.err

\* the project root was refused from a listing that also holds a workspace
\* on a branch
C32_Witness ==
  /\ regPhase = "validated" /\ BareTarget /\ regTarget = RootText
  /\ regValid.err
  /\ \E i \in 1..Len(regRecords) : ~regRecords[i].bare /\ regRecords[i].ref # <<>>

\* In `remove`, a run whose target is the project root, which git lists as
\* bare, never asks for confirmation and invokes no destructive command.
RootNeverRemoved ==
  \A p \in Procs :
    (pc[p] \notin {"idle", "cmdRemove"} /\ targetPath[p] = ProjectRoot) =>
      /\ ~Invoked(p, "confirm")
      /\ ~Invoked(p, "ddev delete --omit-snapshot -y")
      /\ ~Invoked(p, "git worktree remove --force")
      /\ ~Invoked(p, "git branch -D")
      /\ ~Invoked(p, "docker builder prune -f")
      /\ pc[p] \in {"validateWorktree", "done"}
      /\ Done(p) => exitCode[p] = 1

(***************************************************************************)
(* C33: a failed version-control or layout step of `init`                  *)
(***************************************************************************)
\* the i-th call of p is a step of SetupSteps that failed
SetupFailedAt(p, i) == calls[p][i].cmd \in SetupSteps /\ ~calls[p][i].ok

\* after the first failed step of p, nothing but the removal of the project
\* directory was invoked, and that as the next and last call
OnlyRemovalAfterFailure(p) ==
  \A i \in 1..Len(calls[p]) :
    SetupFailedAt(p, i) =>
      /\ Len(calls[p]) = i + 1
      /\ calls[p][i + 1].cmd = "os.RemoveAll"
      /\ calls[p][i + 1].path = ProjectDirPath

\* C33 as stated: in `init`, a failure of the bare clone, the marker-file
\* write, the fetch mapping, the fetch, the default-branch detection, the
\* creation of spaces/ or db/, or the worktree creation removes the whole
\* project directory, skips all later steps, prints no summary and exits
\* non-zero.
C33_InitRollback_AsStated ==
  \A p \in Procs :
    (Done(p) /\ \E i \in 1..Len(calls[p]) : SetupFailedAt(p, i)) =>
      /\ ~projectDir.exists
      /\ OnlyRemovalAfterFailure(p)
      /\ ~Printed(p, SummaryBanner)
      /\ exitCode[p] # 0

\* C33 amended: such a failure makes init call os.RemoveAll on the project
\* directory as its next and last operation, print no summary and exit
\* with status 1; the directory is gone when os.RemoveAll succeeded and is
\* left as it was when it failed.
C33_InitRollback ==
  \A p \in Procs :
    (Done(p) /\ \E i \in 1..Len(calls[p]) : SetupFailedAt(p, i)) =>
      /\ OnlyRemovalAfterFailure(p)
      /\ IF Succeeded(p, "os.RemoveAll") THEN ~projectDir.exists
         ELSE projectDir.exists
      /\ ~Printed(p, SummaryBanner)
      /\ exitCode[p] = 1

\* the worktree of the default branch could not be created; the directory
\* with its clone and its spaces/ and db/ is gone
C33_Witness ==
  /\ Done(1) /\ exitCode[1] = 1
  /\ Failed(1, "git worktree add") /\ Succeeded(1, "os.MkdirAll db")
  /\ Succeeded(1, "os.RemoveAll") /\ ~projectDir.exists
  /\ ~Printed(1, SummaryBanner)

(***************************************************************************)
(* C34: the environment flag implies the worktree flag                     *)
(***************************************************************************)
\* C34: in every state of a `new` run ddevStarted implies worktreeCreated;
\* `ddev start` is invoked only after the worktree was added; and a
\* rollback that deleted the environment goes on to the removal of the
\* worktree.
C34_StartedImpliesCreated ==
  \A p \in Procs :
    /\ state[p].ddevStarted => state[p].worktreeCreated
    /\ Invoked(p, "ddev start") =>
         (WorktreeAdded(p) /\ state[p].worktreeCreated)
    /\ (Invoked(p, "ddev delete -O --omit-snapshot") /\ Done(p)) =>
         /\ Invoked(p, "git worktree remove --force")
         /\ Precedes(p, "ddev delete -O --omit-snapshot", "git worktree remove --force")

\* the import failed with both flags set: the rollback deleted the
\* environment and then removed the worktree
C34_Witness ==
  /\ Done(1) /\ state[1].ddevStarted /\ state[1].worktreeCreated
  /\ Failed(1, "ddev import-db")
  /\ Succeeded(1, "ddev delete -O --omit-snapshot")
  /\ Succeeded(1, "git worktree remove --force")

(***************************************************************************)
(* C35: `new` removes no worktree it did not create                        *)
(***************************************************************************)
\* the worktree-creation command of p returned an error
CreationFailed(p) ==
  Failed(p, "git worktree add") \/ Failed(p, "git worktree add -b")

\* p takes the step
StepOf(p) == pc'[p] # pc[p] \/ calls'[p] # calls[p]

\* C35: when the worktree-creation command of a `new` run has failed,
\* neither flag is set, the run invokes neither the removal of a worktree
\* nor the deletion of an environment, and from the failing step on its
\* steps leave the worktrees, their files, the environments and the
\* branches as they were.
C35_NoRemovalWithoutCreation ==
  /\ [](\A p \in Procs :
          CreationFailed(p) =>
            /\ ~state[p].worktreeCreated /\ ~state[p].ddevStarted
            /\ ~Invoked(p, "git worktree remove --force")
            /\ ~Invoked(p, "ddev delete -O --omit-snapshot")
            /\ ~Invoked(p, "ddev start")
            /\ Done(p) => exitCode[p] = 1)
  /\ [][\A p \in Procs :
          (CreationFailed(p)' /\ StepOf(p)) =>
            UNCHANGED <<worktrees, decl, settings, envs, branches>>]_vars

\* `new main` in a project whose workspace main exists and runs its
\* environment: the run has ended, workspace and environment are there
C35_Witness ==
  /\ Done(1) /\ exitCode[1] = 1 /\ CreationFailed(1)
  /\ worktreeName[1] = nMain /\ nMain \in DOMAIN worktrees
  /\ nProject \in DOMAIN envs /\ envs[nProject] = nMain

(***************************************************************************)
(* C36: two concurrent `new` runs for the same name                        *)
(***************************************************************************)
\* p created the worktree and has not removed it again
HoldsWorktree(p) ==
  state[p].worktreeCreated /\ ~Succeeded(p, "git worktree remove --force")

\* a run whose worktree creation failed invokes no rollback command
FailedCreationRollsBackNothing ==
  \A p \in PairProcs :
    CreationFailed(p) =>
      /\ ~state[p].worktreeCreated
      /\ ~Invoked(p, "git worktree remove --force")
      /\ ~Invoked(p, "ddev delete -O --omit-snapshot")

\* C36 as stated: of two concurrent `new` runs for the same name, at most
\* one sets worktreeCreated, and the rollback of the run whose worktree
\* creation failed removes neither the worktree nor the environment the
\* other run created.
C36_OneCreator_AsStated ==
  /\ Cardinality({p \in PairProcs : state[p].worktreeCreated}) <= 1
  /\ FailedCreationRollsBackNothing

\* C36 amended: at most one of the two runs at a time has created the
\* worktree and not removed it; both have set worktreeCreated only if the
\* rollback of one removed its worktree before the other created it; and
\* the steps of a run whose worktree creation failed leave the worktrees
\* and the environments as they were.
C36_OneCreatorAtATime ==
  /\ [](/\ Cardinality({p \in PairProcs : HoldsWorktree(p)}) <= 1
        /\ FailedCreationRollsBackNothing
        /\ \A p \in PairProcs : HoldsWorktree(p) => worktreeName[p] \in DOMAIN worktrees)
  /\ [][\A p \in PairProcs :
          (CreationFailed(p)' /\ StepOf(p)) =>
            UNCHANGED <<worktrees, decl, settings, envs>>]_vars

\* run 1 created the worktree and started its environment, run 2 failed to
\* create it and has ended; worktree and environment are there
C36_Witness ==
  /\ state[1].worktreeCreated /\ state[1].ddevStarted
  /\ CreationFailed(2) /\ Done(2) /\ exitCode[2] = 1
  /\ nTask \in DOMAIN worktrees
  /\ \E n \in DOMAIN envs : envs[n] = nTask

(***************************************************************************)
(* C37: rollback in `new` keeps the branch                                 *)
(***************************************************************************)
\* p created the branch together with its worktree
CreatedBranch(p) == Succeeded(p, "git worktree add -b")

\* C37: `new` never invokes a branch deletion and no step of it removes a
\* branch, so the branch a run created with its worktree exists in every
\* later state, also after the rollback removed the worktree; and a run
\* that checks for the branch after that finds it and adds the worktree
\* without creating the branch.
C37_RollbackKeepsBranch ==
  /\ [](\A p \in PairProcs :
          /\ ~Invoked(p, "git branch -D")
          /\ CreatedBranch(p) => worktreeName[p] \in branches
          /\ (pc[p] \notin {"idle", "cmdNewFromArgs", "findProjectRoot", "resolveBase",
                            "findDDEVProjectName", "createWorktree"}
               /\ branchExists[p]) => ~Invoked(p, "git worktree add -b"))
  /\ [][/\ branches \subseteq branches'
        /\ \A p, q \in PairProcs :
             (pc[p] = "createWorktree" /\ pc'[p] = "worktreeAdd" /\ CreatedBranch(q))
               => branchExists'[p]]_vars

\* run 1 created branch and worktree, failed and removed the worktree; run
\* 2 then added the worktree for the branch it found
C37_Witness ==
  /\ Done(1) /\ exitCode[1] = 1 /\ CreatedBranch(1)
  /\ Succeeded(1, "git worktree remove --force")
  /\ branchExists[2] /\ Succeeded(2, "git worktree add")
  /\ nTask \in branches /\ nTask \in DOMAIN worktrees

(***************************************************************************)
(* C38: reading the name back after a rename                               *)
(***************************************************************************)
\* the last rename succeeded on a file from which the original name is read
RenamedWhatWasRead ==
  /\ rnCount > 0 /\ ~rnErr
  /\ getDDEVProjectName(rnBefore) = [err |-> FALSE, name |-> rnOrig]

\* C38: when getDDEVProjectName returns O on a declaration file and
\* renameDDEVProject succeeds on it with identifier I and original name O,
\* getDDEVProjectName returns I-O on the file afterwards.
C38_ReadRenameRoundTrip ==
  RenamedWhatWasRead =>
    getDDEVProjectName(rnFile) = [err |-> FALSE, name |-> rnIdent \o <<"-">> \o rnOrig]

====
